---- MODULE Spec2Model ----
(***************************************************************************)
(* kinesis2sse: a Kinesis stream is ingested into a bounded in-memory log  *)
(* (memlog) with a timestamp index (Timestamp2Offset) and served to        *)
(* clients as server-sent events.                                          *)
(*                                                                         *)
(* The module holds one state machine per component, each with its own     *)
(* specification over the shared variable list:                            *)
(*   SpecIdx  Timestamp2Offset.Add / NearestOffset   (timestamp2offset.go) *)
(*   SpecSvc  Service.Start / Service.Stop           (service.go)          *)
(*   SpecProc dumpRecordProcessor.ProcessRecords     (record_processor.go) *)
(*   SpecSse  Service.handleFunc beside ProcessRecords (service.go)        *)
(* A specification leaves the variables of the other components at their   *)
(* initial values.                                                         *)
(***************************************************************************)
EXTENDS Integers, Sequences, FiniteSets, TLC

VARIABLES
    \* ---- Timestamp2Offset under test (SpecIdx) ----
    idx,        \* the Timestamp2Offset value
    idxOp,      \* the last call made on it, with its result
    idxHist,    \* history: the offsets of the accepted Adds, in order
    \* ---- Service lifecycle (SpecSvc) ----
    wrkr,       \* route -> state of its KCL worker: "nil", "new", "running", "stopped"
    startPc,    \* where the Start call is
    attempted,  \* routes the range loop of Start has visited
    started,    \* Start's local slice of started workers
    rb,         \* index of the rollback loop over started
    startRet,   \* what Start returned: "nil", "worker", "bind", "serve"
    l,          \* s.l: "nil" or the address of the published listener
    lcl,        \* Start's local l: "nil" or the address net.Listen bound
    addr,       \* caller -> its Addr call: where it is, what it returned,
                \* and history (waited: it has been in cond.Wait)
    srv,        \* http.Server: "new", "serving", "closed"
    cancelled,  \* s.cancel() has been called
    stopPc,     \* where the Stop call is
    visited,    \* routes the range loop of Stop has visited
    shut,       \* route -> goroutine of Stop: "none", "pending", "done"
    wait,       \* the sync.WaitGroup counter of Stop
    stopRet,    \* what Stop returned
    lateHttp,   \* history: a worker shutdown outlived the HTTP shutdown
    \* ---- one route: its Log, its index, its record processors ----
    ml,         \* memlog.Log: the records written, record i at offset i - 1
    t2o,        \* the route's Timestamp2Offset
    lock,       \* holder of t2o.Mutex, "free" when unlocked
    procPc,     \* processor -> where its ProcessRecords call is
    batchId,    \* processor -> index in begun of its current input
    bi,         \* processor -> index of the record the loop is at
    off,        \* processor -> offset returned by the last ml.Write
    checkpointer, \* processor -> its inputs carry a Checkpointer (not nil)
    nextSeq,    \* next sequence number of the stream
    checkpoints,\* the Checkpoint calls made, in order
    panicked,   \* the process has panicked
    begun,      \* history: the inputs of the ProcessRecords calls, in order
    applied,    \* history: the records the loops have gone through, in order
    finished,   \* history: indices in begun of the calls that have returned
    reason,     \* processor -> the ShutdownReason it was shut down with,
                \* "none" before
    foreign,    \* number of direct calls of ml.Write and t2o.Add made by
                \* others than ProcessRecords (as the tests make them)
    \* ---- inMemoryCheckpointer (SpecChk) ----
    items,      \* checkpointer.m: shard ID -> marshalledCheckpoint, for the
                \* shards that have one
    shardStatus,\* shard ID -> the caller's par.ShardStatus
    chkOp,      \* the last call made on the checkpointer, with its result
    saved,      \* history: shard ID -> the position last saved for it and
                \* not removed since, "none" without one
    \* ---- the command line's routes (SpecCli) ----
    parsedRoutes, \* the routes given on the command line (RouteOptionsCLI)
    ri,         \* the loop of RunE over them: the index of the next one
    cliRoutes,  \* routes[]: the RouteOptions made so far
    cliErr,     \* the error RunE has returned, "nil" without one
    \* ---- a Service with several routes (SpecRoutes) ----
    routes,     \* s.routes: pattern -> the route's Log and index (which ones)
    handler,    \* the ServeMux: pattern -> the Log and index its handler got
    mls,        \* the Logs made by NewService, each one's records
    t2os,       \* the indexes made by NewService
    conns,      \* client -> its request: the path, where handleFunc is, the
                \* Log it streams and from which offset, the frames written
    mrOp,       \* the last write made: to which route's Log or index
    writes,     \* history: pattern -> the data written to the route's Log
    \* ---- the requests on the route's pattern (SpecSse) ----
    hdl,        \* client -> its handleFunc call: where it is, its locals
                \* (timestamp, off), the response so far (status, frames
                \* written, how many of them flushed) and history (req: the
                \* request; sent: the offsets streamed; connLatest: the
                \* latest offset of the Log when the request arrived)
    \* ---- Checkpointer under concurrent callers (SpecChkConc) ----
    calls       \* caller -> its call on the checkpointer: where it is, the
                \* shard status it was given, its local item; and history
                \* (made: shard ID -> checkpoints the consumer has made;
                \* committed: shard ID -> the position CheckpointSequence
                \* last stored)

idxVars == <<idx, idxOp, idxHist>>

svcVars == <<wrkr, startPc, attempted, started, rb, startRet, l, lcl, addr, srv, cancelled,
             stopPc, visited, shut, wait, stopRet, lateHttp>>

procVars == <<ml, t2o, lock, procPc, batchId, bi, off, checkpointer, nextSeq, checkpoints,
              panicked, begun, applied, finished, reason, foreign>>

sseVars == <<hdl>>

chkVars == <<items, shardStatus, chkOp, saved>>

cliVars == <<parsedRoutes, ri, cliRoutes, cliErr>>

mrVars == <<routes, handler, mls, t2os, conns, mrOp, writes>>

ccVars == <<calls>>

vars == <<idxVars, svcVars, procVars, sseVars, chkVars, cliVars, mrVars, ccVars>>

\* ------------------------------------------------------------------------
\* Bounds of the model
\* ------------------------------------------------------------------------
\* Offsets handed to Add are drawn from -1 .. MaxOffset.
MaxOffset == 4
\* Timestamps are drawn from 0 .. MaxTs; queries from 0 .. MaxTs + 1.
MaxTs == 3
\* Index capacities are drawn from 1 .. MaxCap.
MaxCap == 2
\* A Service has the routes 1 .. NumRoutes.
NumRoutes == 2
\* A ProcessRecords input holds 0 .. MaxBatch records.
MaxBatch == 2
\* All inputs together hold at most MaxRecords records, in at most MaxBatches calls.
MaxRecords == 2
MaxBatches == MaxBatch
\* memlog's record size limit, in units of one JSON member.
MaxRecordSize == 2
\* Direct calls of ml.Write and t2o.Add beside ProcessRecords.
MaxForeign == 1

Timestamps == 0 .. MaxTs
Queries == 0 .. (MaxTs + 1)

\* ------------------------------------------------------------------------
\* modernc.org/b Tree[timestamp2OffsetsKey, struct{}], as a sequence of keys
\* kept sorted by timestamp2OffsetsKeyCmp
\* ------------------------------------------------------------------------
NoKey == [timestamp |-> -1, offset |-> -1]

\* cmp.Compare on ints
Compare(a, b) == IF a < b THEN -1 ELSE IF a > b THEN 1 ELSE 0

\* Keys compared by timestamp alone.
timestamp2OffsetsKeyCmp_TimestampOnly(a, b) == Compare(a.timestamp, b.timestamp)

timestamp2OffsetsKeyCmp_OffsetOnly(a, b) == Compare(a.offset, b.offset)

timestamp2OffsetsKeyCmp(a, b) ==
    LET c == Compare(a.timestamp, b.timestamp)
    IN  IF c = 0 THEN Compare(a.offset, b.offset) ELSE c

\* Tree.Seek: an enumerator positioned on the first item with key >= k
\* (possibly after the last item); hit reports an exact match.
TreeSeek(t, k) ==
    LET below == {j \in 1 .. Len(t) : timestamp2OffsetsKeyCmp(t[j], k) < 0}
        i == Cardinality(below) + 1
    IN  [i |-> i,
         hit |-> i <= Len(t) /\ timestamp2OffsetsKeyCmp(t[i], k) = 0]

\* Enumerator.Next: the currently enumerated item, io.EOF when there is none.
EnumNext(t, e) ==
    IF e.i > Len(t) THEN [eof |-> TRUE, k |-> NoKey]
    ELSE [eof |-> FALSE, k |-> t[e.i]]

\* Enumerator.Prev: the currently enumerated item; a Seek without a hit has
\* overshot, so the enumerator first steps back by one.
EnumPrev(t, e) ==
    LET j == IF e.hit THEN e.i ELSE e.i - 1
    IN  IF Len(t) = 0 \/ j < 1 THEN [eof |-> TRUE, k |-> NoKey]
        ELSE [eof |-> FALSE, k |-> t[j]]

\* Tree.Set: insert k at its place in key order (overwrite when present).
TreeSet(t, k) ==
    LET e == TreeSeek(t, k)
    IN  IF e.hit THEN t
        ELSE SubSeq(t, 1, e.i - 1) \o <<k>> \o SubSeq(t, e.i, Len(t))

\* Tree.Delete: remove k; ok reports whether it was present.
TreeDelete(t, k) ==
    LET e == TreeSeek(t, k)
    IN  IF e.hit
        THEN [ok |-> TRUE, t |-> SubSeq(t, 1, e.i - 1) \o SubSeq(t, e.i + 1, Len(t))]
        ELSE [ok |-> FALSE, t |-> t]

\* ------------------------------------------------------------------------
\* Timestamp2Offset
\* ------------------------------------------------------------------------
EmptyMap == [o \in {} |-> 0]

MapSet(f, o, v) == [x \in (DOMAIN f) \cup {o} |-> IF x = o THEN v ELSE f[x]]

MapDelete(f, o) == [x \in (DOMAIN f) \ {o} |-> f[x]]

NewTimestamp2Offset(capacity) ==
    [capacity |-> capacity,
     lastOffset |-> -1,
     offset2Timestamp |-> EmptyMap,
     timestamp2Offsets |-> <<>>]

SeekKey(timestamp) == [timestamp |-> timestamp, offset |-> 0]

\* "Go forward": Seek, then Next.
NearestForward(m, timestamp) ==
    EnumNext(m.timestamp2Offsets, TreeSeek(m.timestamp2Offsets, SeekKey(timestamp)))

\* "Go backward": Seek again, then Prev.
NearestBackward(m, timestamp) ==
    EnumPrev(m.timestamp2Offsets, TreeSeek(m.timestamp2Offsets, SeekKey(timestamp)))

NearestOffset_BackwardFirst(m, timestamp) ==
    LET b == NearestBackward(m, timestamp)
        f == NearestForward(m, timestamp)
    IN  IF ~b.eof THEN [offset |-> b.k.offset, ok |-> TRUE]
        ELSE IF ~f.eof THEN [offset |-> f.k.offset, ok |-> TRUE]
        ELSE [offset |-> -1, ok |-> FALSE]

NearestOffset(m, timestamp) ==
    LET f == NearestForward(m, timestamp)
        b == NearestBackward(m, timestamp)
    IN  IF ~f.eof THEN [offset |-> f.k.offset, ok |-> TRUE]
        ELSE IF ~b.eof THEN [offset |-> b.k.offset, ok |-> TRUE]
        ELSE [offset |-> -1, ok |-> FALSE]

\* Add, lines 84-94: the offset checks; the first Add sets the baseline.
AddCheck_NoOrder(m, offset) ==
    IF offset < 0 THEN [err |-> "negative", m |-> m]
    ELSE [err |-> "nil", m |-> m]

AddCheck(m, offset) ==
    IF offset < 0 THEN [err |-> "negative", m |-> m]
    ELSE IF Cardinality(DOMAIN m.offset2Timestamp) = 0
         THEN [err |-> "nil", m |-> [m EXCEPT !.lastOffset = offset]]
    ELSE IF m.lastOffset # offset - 1 THEN [err |-> "outoforder", m |-> m]
    ELSE [err |-> "nil", m |-> m]

\* Add, lines 96-112: at capacity, remove the entry of offset - capacity.
AddEvict_Never(m, offset) == [err |-> "nil", m |-> m]

AddEvict(m, offset) ==
    IF Cardinality(DOMAIN m.offset2Timestamp) # m.capacity
    THEN [err |-> "nil", m |-> m]
    ELSE LET oldestOffset == offset - m.capacity
         IN  IF oldestOffset \notin DOMAIN m.offset2Timestamp
             THEN [err |-> "oldnotfound", m |-> m]
             ELSE LET d == TreeDelete(m.timestamp2Offsets,
                                      [timestamp |-> m.offset2Timestamp[oldestOffset],
                                       offset |-> oldestOffset])
                  IN  IF ~d.ok THEN [err |-> "oldtimestampnotfound", m |-> m]
                      ELSE [err |-> "nil",
                            m |-> [m EXCEPT
                                     !.timestamp2Offsets = d.t,
                                     !.offset2Timestamp = MapDelete(@, oldestOffset)]]

\* Add, lines 114-125: insert the newest entry.
AddInsert(m, offset, timestamp) ==
    [m EXCEPT
       !.offset2Timestamp = MapSet(@, offset, timestamp),
       !.timestamp2Offsets = TreeSet(@, [timestamp |-> timestamp, offset |-> offset]),
       !.lastOffset = offset]

Add(m, offset, timestamp) ==
    LET c == AddCheck(m, offset)
    IN  IF c.err # "nil" THEN [err |-> c.err, m |-> m]
        ELSE LET e == AddEvict(c.m, offset)
             IN  IF e.err # "nil" THEN [err |-> e.err, m |-> e.m]
                 ELSE [err |-> "nil", m |-> AddInsert(e.m, offset, timestamp)]

\* ------------------------------------------------------------------------
\* Initial values of the components
\* ------------------------------------------------------------------------
\* The index of SpecIdx when another component is under test.
NoOp == [op |-> "none", offset |-> -1, timestamp |-> -1, err |-> "nil", ok |-> FALSE]

IdxInitial ==
    /\ idx = NewTimestamp2Offset(1)
    /\ idxOp = NoOp
    /\ idxHist = <<>>

Routes == 1 .. NumRoutes

\* The goroutines that call Addr.
AllCallers == {"a1", "a2"}

\* The addresses net.Listen may bind (a fixed port, or any free one).
ListenAddrs == {"addr1", "addr2"}

\* NewService: every route gets a worker unless disableKCL; the listener is
\* nil, nothing has been started or stopped.
SvcInitial(disableKCL) ==
    /\ wrkr = [r \in Routes |-> IF disableKCL THEN "nil" ELSE "new"]
    /\ startPc = "idle"
    /\ attempted = {}
    /\ started = <<>>
    /\ rb = 1
    /\ startRet = "nil"
    /\ l = "nil"
    /\ lcl = "nil"
    /\ addr = [a \in AllCallers |-> [pc |-> "idle", ret |-> "none", waited |-> FALSE]]
    /\ srv = "new"
    /\ cancelled = FALSE
    /\ stopPc = "idle"
    /\ visited = {}
    /\ shut = [r \in Routes |-> "none"]
    /\ wait = 0
    /\ stopRet = "nil"
    /\ lateHttp = FALSE

AllProcs == {"p1", "p2"}

AllClients == {"c1"}

\* The shards of the stream, and the positions a shard may be at: none yet,
\* sequence numbers, and chk.ShardEnd.
AllShards == {"sh1", "sh2"}

ShardEnd == "SHARD_END"

SequenceNumbers == {"", "49590", ShardEnd}

\* The ID of the worker the checkpointer was made for, and all worker IDs.
WorkerID == "w1"

WorkerIDs == {"w1", "w2"}

\* The zero time.Time, and time.Now().AddDate(1, 0, 0) of GetLease.
NoLeaseTimeout == 0

NewLeaseTimeout == 1

NoChkOp == [op |-> "none", shard |-> "", err |-> "nil", result |-> <<>>]

\* NewInMemoryCheckpointer: an empty map; the worker knows the shards, at no
\* position and assigned to nobody.
ChkInitial ==
    /\ items = <<>>
    /\ shardStatus = [sh \in AllShards |->
                        [Checkpoint |-> "", AssignedTo |-> "",
                         LeaseTimeout |-> NoLeaseTimeout, ParentShardId |-> ""]]
    /\ chkOp = NoChkOp
    /\ saved = [sh \in AllShards |-> "none"]

NoTimestamp == -1

\* RunE has not begun; no routes were given.
CliInitial ==
    /\ parsedRoutes = <<>>
    /\ ri = 1
    /\ cliRoutes = <<>>
    /\ cliErr = "nil"

NoMrOp == [op |-> "none", pattern |-> ""]

\* The callers of the checkpointer: the shard consumer, whose record
\* processor checkpoints, and the worker's event loop, which fetches and
\* claims.
Callers == {"consumer", "worker"}

\* No call on the checkpointer is in progress.
NoCall == [pc |-> "idle", op |-> "", shard |-> "", item |-> <<>>]

CcInitial ==
    calls = [caller |-> [c \in Callers |-> NoCall],
             made |-> [sh \in AllShards |-> 0],
             committed |-> [sh \in AllShards |-> "none"]]

\* A Service without routes.
MrInitial ==
    /\ routes = <<>>
    /\ handler = <<>>
    /\ mls = <<>>
    /\ t2os = <<>>
    /\ conns = <<>>
    /\ mrOp = NoMrOp
    /\ writes = <<>>

\* No request has arrived.
HandlerInitial ==
    hdl = [c \in AllClients |->
             [pc |-> "idle", timestamp |-> NoTimestamp, off |-> 0, status |-> 0,
              frames |-> <<>>, flushed |-> 0, sent |-> <<>>, connLatest |-> -1,
              req |-> [canFlush |-> TRUE, since |-> [kind |-> "empty", v |-> 0]]]]

Procs == DOMAIN procPc

\* procs: the processors of the route, each with whether the worker hands it
\* a Checkpointer (the KCL does, the tests do not).
RouteInitial(capacity, procs) ==
    /\ ml = <<>>
    /\ t2o = NewTimestamp2Offset(capacity)
    /\ lock = "free"
    /\ procPc = [p \in DOMAIN procs |-> "idle"]
    /\ batchId = [p \in DOMAIN procs |-> 0]
    /\ bi = [p \in DOMAIN procs |-> 0]
    /\ off = [p \in DOMAIN procs |-> -1]
    /\ checkpointer = procs
    /\ nextSeq = 1
    /\ checkpoints = <<>>
    /\ panicked = FALSE
    /\ begun = <<>>
    /\ applied = <<>>
    /\ finished = {}
    /\ reason = [p \in DOMAIN procs |-> "none"]
    /\ foreign = 0

\* ------------------------------------------------------------------------
\* Service: NewService, Start, Stop
\* ------------------------------------------------------------------------
\* wk.Worker.Shutdown: stops a running worker and returns when it has
\* stopped; a worker that is not running is left as it is.
WorkerShutdown(w) == IF w = "running" THEN "stopped" ELSE w

SvcFrame == UNCHANGED <<idxVars, procVars, sseVars, chkVars, cliVars, mrVars, ccVars>>

\* Start is called (once).
StartCall ==
    /\ startPc = "idle"
    /\ startPc' = "workers"
    /\ UNCHANGED <<wrkr, attempted, started, rb, startRet, l, lcl, addr, srv, cancelled,
                   stopPc, visited, shut, wait, stopRet, lateHttp>>
    /\ SvcFrame

\* Start, lines 137-151: one iteration of the range over s.routes (any
\* order): skip a nil worker; otherwise wrkr.Start() succeeds or fails.
StartWorker(r, ok) ==
    /\ startPc = "workers"
    /\ r \notin attempted
    /\ attempted' = attempted \cup {r}
    /\ IF wrkr[r] = "nil"
       THEN UNCHANGED <<wrkr, started, startPc, startRet>>
       ELSE IF ok
       THEN /\ wrkr' = [wrkr EXCEPT ![r] = "running"]
            /\ started' = Append(started, r)
            /\ UNCHANGED <<startPc, startRet>>
       ELSE /\ startPc' = "rollback"
            /\ startRet' = "worker"
            /\ UNCHANGED <<wrkr, started>>
    /\ UNCHANGED <<rb, l, lcl, addr, srv, cancelled, stopPc, visited, shut, wait, stopRet, lateHttp>>
    /\ SvcFrame

\* Start, lines 144-147 and 157-160: shut down the started workers one by
\* one, then return the error.
StartRollback_Skip ==
    /\ startPc = "rollback"
    /\ startPc' = "returned"
    /\ UNCHANGED <<wrkr, rb, attempted, started, startRet, l, lcl, addr, srv, cancelled,
                   stopPc, visited, shut, wait, stopRet, lateHttp>>
    /\ SvcFrame

StartRollback ==
    /\ startPc = "rollback"
    /\ IF rb <= Len(started)
       THEN /\ wrkr' = [wrkr EXCEPT ![started[rb]] = WorkerShutdown(@)]
            /\ rb' = rb + 1
            /\ UNCHANGED startPc
       ELSE /\ startPc' = "returned"
            /\ UNCHANGED <<wrkr, rb>>
    /\ UNCHANGED <<attempted, started, startRet, l, lcl, addr, srv, cancelled,
                   stopPc, visited, shut, wait, stopRet, lateHttp>>
    /\ SvcFrame

\* Start, lines 154-161: net.Listen after the loop is over; it binds a
\* listener (still local to Start) or fails.
StartListen(ok, a) ==
    /\ startPc = "workers"
    /\ attempted = Routes
    /\ IF ok
       THEN /\ startPc' = "publish"
            /\ lcl' = a
            /\ UNCHANGED startRet
       ELSE /\ startPc' = "rollback"
            /\ startRet' = "bind"
            /\ UNCHANGED lcl
    /\ UNCHANGED <<wrkr, attempted, started, rb, l, addr, srv, cancelled,
                   stopPc, visited, shut, wait, stopRet, lateHttp>>
    /\ SvcFrame

\* Start, lines 163-165: s.l = l under the lock of the condition.
StartPublish ==
    /\ startPc = "publish"
    /\ l' = lcl
    /\ startPc' = "broadcast"
    /\ UNCHANGED <<wrkr, attempted, started, rb, startRet, lcl, addr, srv, cancelled,
                   stopPc, visited, shut, wait, stopRet, lateHttp>>
    /\ SvcFrame

\* s.cond.Signal() in the place of Broadcast: one caller in cond.Wait wakes.
StartBroadcast_Signal ==
    /\ startPc = "broadcast"
    /\ IF \E a \in AllCallers : addr[a].pc = "waiting"
       THEN \E a \in AllCallers :
               /\ addr[a].pc = "waiting"
               /\ addr' = [addr EXCEPT ![a].pc = "lock"]
       ELSE UNCHANGED addr
    /\ startPc' = "serve"
    /\ UNCHANGED <<wrkr, attempted, started, rb, startRet, l, lcl, srv, cancelled,
                   stopPc, visited, shut, wait, stopRet, lateHttp>>
    /\ SvcFrame

\* Start, line 166: s.cond.Broadcast() wakes every caller in cond.Wait.
StartBroadcast ==
    /\ startPc = "broadcast"
    /\ addr' = [a \in AllCallers |->
                 IF addr[a].pc = "waiting" THEN [addr[a] EXCEPT !.pc = "lock"]
                 ELSE addr[a]]
    /\ startPc' = "serve"
    /\ UNCHANGED <<wrkr, attempted, started, rb, startRet, l, lcl, srv, cancelled,
                   stopPc, visited, shut, wait, stopRet, lateHttp>>
    /\ SvcFrame

\* Addr is called.
AddrCall(a) ==
    /\ addr[a].pc = "idle"
    /\ addr' = [addr EXCEPT ![a].pc = "lock"]
    /\ UNCHANGED <<wrkr, startPc, attempted, started, rb, startRet, l, lcl, srv, cancelled,
                   stopPc, visited, shut, wait, stopRet, lateHttp>>
    /\ SvcFrame

\* Addr, lines 178-189: with the lock of the condition (taken on entry, or
\* again on waking up): while s.l is nil, cond.Wait, which gives the lock
\* up; else return the address of s.l.
AddrCheck_NoWait(a) ==
    /\ addr[a].pc = "lock"
    /\ addr' = [addr EXCEPT ![a].pc = "returned", ![a].ret = l]
    /\ UNCHANGED <<wrkr, startPc, attempted, started, rb, startRet, l, lcl, srv, cancelled,
                   stopPc, visited, shut, wait, stopRet, lateHttp>>
    /\ SvcFrame

\* An Addr that gives up with an error once Start has returned.
AddrCheck_GiveUp(a) ==
    /\ addr[a].pc = "lock"
    /\ addr' = [addr EXCEPT ![a] =
                 IF l = "nil" /\ startPc = "returned"
                 THEN [@ EXCEPT !.pc = "returned", !.ret = "error"]
                 ELSE IF l = "nil" THEN [@ EXCEPT !.pc = "waiting", !.waited = TRUE]
                 ELSE [@ EXCEPT !.pc = "returned", !.ret = l]]
    /\ UNCHANGED <<wrkr, startPc, attempted, started, rb, startRet, l, lcl, srv, cancelled,
                   stopPc, visited, shut, wait, stopRet, lateHttp>>
    /\ SvcFrame

AddrCheck(a) ==
    /\ addr[a].pc = "lock"
    /\ addr' = [addr EXCEPT ![a] =
                 IF l = "nil" THEN [@ EXCEPT !.pc = "waiting", !.waited = TRUE]
                 ELSE [@ EXCEPT !.pc = "returned", !.ret = l]]
    /\ UNCHANGED <<wrkr, startPc, attempted, started, rb, startRet, l, lcl, srv, cancelled,
                   stopPc, visited, shut, wait, stopRet, lateHttp>>
    /\ SvcFrame

\* Start, line 169: srv.Serve(l) begins serving, unless the server was shut
\* down already: then it returns http.ErrServerClosed at once and Start
\* returns nil.
StartServe ==
    /\ startPc = "serve"
    /\ IF srv = "closed"
       THEN /\ startPc' = "returned"
            /\ UNCHANGED srv
       ELSE /\ startPc' = "serving"
            /\ srv' = "serving"
    /\ UNCHANGED <<wrkr, attempted, started, rb, startRet, l, lcl, addr, cancelled,
                   stopPc, visited, shut, wait, stopRet, lateHttp>>
    /\ SvcFrame

\* Start, lines 169-173: Serve returns. After a shutdown it returns
\* http.ErrServerClosed and Start returns nil; any other error of Serve
\* (failed) is returned as it is, the workers left as they are.
StartServeReturn(failed) ==
    /\ startPc = "serving"
    /\ IF failed
       THEN /\ srv = "serving"
            /\ startRet' = "serve"
       ELSE /\ srv = "closed"
            /\ UNCHANGED startRet
    /\ startPc' = "returned"
    /\ UNCHANGED <<wrkr, attempted, started, rb, l, lcl, addr, srv, cancelled,
                   stopPc, visited, shut, wait, stopRet, lateHttp>>
    /\ SvcFrame

\* Stop, line 194: s.cancel().
StopCancel ==
    /\ stopPc = "idle"
    /\ cancelled' = TRUE
    /\ stopPc' = "spawn"
    /\ UNCHANGED <<wrkr, startPc, attempted, started, rb, startRet, l, lcl, addr, srv,
                   visited, shut, wait, stopRet, lateHttp>>
    /\ SvcFrame

\* Stop, lines 199-208: one iteration of the range over s.routes: for a
\* non-nil worker, wait.Add(1) and a goroutine that will shut it down.
StopSpawn(r) ==
    /\ stopPc = "spawn"
    /\ r \notin visited
    /\ visited' = visited \cup {r}
    /\ IF wrkr[r] # "nil"
       THEN /\ wait' = wait + 1
            /\ shut' = [shut EXCEPT ![r] = "pending"]
       ELSE UNCHANGED <<wait, shut>>
    /\ UNCHANGED <<wrkr, startPc, attempted, started, rb, startRet, l, lcl, addr, srv,
                   cancelled, stopPc, stopRet, lateHttp>>
    /\ SvcFrame

\* Stop, lines 203-206: the goroutine: wrkr.Shutdown(), then wait.Done().
StopWorkerShutdown(r) ==
    /\ shut[r] = "pending"
    /\ wrkr' = [wrkr EXCEPT ![r] = WorkerShutdown(@)]
    /\ shut' = [shut EXCEPT ![r] = "done"]
    /\ wait' = wait - 1
    /\ UNCHANGED <<startPc, attempted, started, rb, startRet, l, lcl, addr, srv,
                   cancelled, stopPc, visited, stopRet, lateHttp>>
    /\ SvcFrame

\* Stop, line 211: srv.Shutdown(ctx) is entered after the loop: the server
\* is closed, a running Serve returns http.ErrServerClosed.
StopHttpShutdown ==
    /\ stopPc = "spawn"
    /\ visited = Routes
    /\ srv' = "closed"
    /\ stopPc' = "http"
    /\ UNCHANGED <<wrkr, startPc, attempted, started, rb, startRet, l, lcl, addr,
                   cancelled, visited, shut, wait, stopRet, lateHttp>>
    /\ SvcFrame

\* Stop, line 211: srv.Shutdown(ctx) returns nil once no request is being
\* handled, or the error of ctx when ctx is done first.
StopHttpReturn(err) ==
    /\ stopPc = "http"
    /\ err = "nil" => \A c \in AllClients : hdl[c].pc \in {"idle", "done"}
    /\ stopRet' = err
    /\ stopPc' = "wait"
    /\ lateHttp' = (wait > 0)
    /\ UNCHANGED <<wrkr, startPc, attempted, started, rb, startRet, l, lcl, addr, srv,
                   cancelled, visited, shut, wait>>
    /\ SvcFrame

\* Stop, lines 213-214: wait.Wait() blocks while the counter is above 0,
\* then Stop returns the HTTP error.
StopWait_NoWait ==
    /\ stopPc = "wait"
    /\ stopPc' = "returned"
    /\ UNCHANGED <<wrkr, startPc, attempted, started, rb, startRet, l, lcl, addr, srv,
                   cancelled, visited, shut, wait, stopRet, lateHttp>>
    /\ SvcFrame

StopWait ==
    /\ stopPc = "wait"
    /\ wait = 0
    /\ stopPc' = "returned"
    /\ UNCHANGED <<wrkr, startPc, attempted, started, rb, startRet, l, lcl, addr, srv,
                   cancelled, visited, shut, wait, stopRet, lateHttp>>
    /\ SvcFrame

InitSvc ==
    /\ \E disableKCL \in BOOLEAN : SvcInitial(disableKCL)
    /\ IdxInitial
    /\ RouteInitial(1, <<>>)
    /\ HandlerInitial
    /\ ChkInitial
    /\ CliInitial
    /\ MrInitial
    /\ CcInitial

NextSvc ==
    \/ StartCall
    \/ \E r \in Routes, ok \in BOOLEAN : StartWorker(r, ok)
    \/ StartRollback
    \/ \E ok \in BOOLEAN, a \in ListenAddrs : StartListen(ok, a)
    \/ StartPublish
    \/ StartBroadcast
    \/ \E a \in AllCallers : AddrCall(a)
    \/ \E a \in AllCallers : AddrCheck(a)
    \/ StartServe
    \/ \E failed \in BOOLEAN : StartServeReturn(failed)
    \/ StopCancel
    \/ \E r \in Routes : StopSpawn(r)
    \/ \E r \in Routes : StopWorkerShutdown(r)
    \/ StopHttpShutdown
    \/ \E err \in {"nil", "error"} : StopHttpReturn(err)
    \/ StopWait

SpecSvc == InitSvc /\ [][NextSvc]_vars

\* ------------------------------------------------------------------------
\* SpecAddr: one Start call and the Addr calls made beside it (no Stop)
\* ------------------------------------------------------------------------
InitAddr ==
    /\ \E disableKCL \in BOOLEAN : SvcInitial(disableKCL)
    /\ IdxInitial
    /\ RouteInitial(1, <<>>)
    /\ HandlerInitial
    /\ ChkInitial
    /\ CliInitial
    /\ MrInitial
    /\ CcInitial

NextAddr ==
    \/ StartCall
    \/ \E r \in Routes, ok \in BOOLEAN : StartWorker(r, ok)
    \/ StartRollback
    \/ \E ok \in BOOLEAN, a \in ListenAddrs : StartListen(ok, a)
    \/ StartPublish
    \/ StartBroadcast
    \/ \E a \in AllCallers : AddrCall(a)
    \/ \E a \in AllCallers : AddrCheck(a)
    \/ StartServe
    \* without a Stop, Serve returns only by failing
    \/ \E failed \in {TRUE} : StartServeReturn(failed)

SpecAddr == InitAddr /\ [][NextAddr]_vars

\* The goroutines of Start and of the Addr callers are scheduled.
FairSpecAddr ==
    /\ SpecAddr
    /\ WF_vars(StartPublish)
    /\ WF_vars(StartBroadcast)
    /\ \A a \in AllCallers : WF_vars(AddrCheck(a))

\* ------------------------------------------------------------------------
\* memlog.Log (github.com/embano1/memlog), as far as the route uses it
\* ------------------------------------------------------------------------
\* Log.Write: a record above the size limit is refused; otherwise it is
\* appended and gets the next offset (offsets start at 0).
LogWrite(log, data, time) ==
    IF Len(data) > MaxRecordSize
    THEN [err |-> TRUE, offset |-> -1, log |-> log]
    ELSE [err |-> FALSE, offset |-> Len(log),
          log |-> Append(log, [data |-> data, time |-> time])]

\* Log.Range: the latest offset, -1 for an empty log.
LogLatest(log) == Len(log) - 1

\* ------------------------------------------------------------------------
\* Kinesis record data and its decoding in ProcessRecords
\* ------------------------------------------------------------------------
\* The members of a "detail" object are numbered; a document lists them in
\* any order, the decoded map has none, json.Marshal writes them sorted.
Range(f) == {f[i] : i \in DOMAIN f}

SortedSeq(S) ==
    CHOOSE q \in [1 .. Cardinality(S) -> S] :
        \A i, j \in 1 .. Cardinality(S) : i < j => q[i] < q[j]

\* json.Marshal of the decoded "detail" value
Marshal(detail) == SortedSeq(Range(detail))

\* The record data the inputs are drawn from: `bogus`, a document without
\* "time", one whose "time" is no RFC3339 string, one without "detail", and
\* well-formed documents (one of them with a "detail" above the size limit).
Doc(json, timeKind, time, hasDetail, detail) ==
    [json |-> json, timeKind |-> timeKind, time |-> time,
     hasDetail |-> hasDetail, detail |-> detail]

BigDetail == [i \in 1 .. (MaxRecordSize + 1) |-> MaxRecordSize + 2 - i]

MalformedData ==
    {Doc(FALSE, "absent", 0, FALSE, <<>>),
     Doc(TRUE, "absent", 0, TRUE, <<1>>),
     Doc(TRUE, "unparsable", 0, TRUE, <<1>>),
     Doc(TRUE, "rfc3339", 0, FALSE, <<>>)}

GoodData ==
    {Doc(TRUE, "rfc3339", 0, TRUE, <<2, 1>>),
     Doc(TRUE, "rfc3339", 1, TRUE, <<1>>),
     Doc(TRUE, "rfc3339", 0, TRUE, BigDetail)}

RecordData == MalformedData \cup GoodData

SeqsUpTo(S, n) == UNION {[1 .. k -> S] : k \in 0 .. n}

\* ProcessRecords, lines 60-88: what the loop makes of one record's data up
\* to json.Marshal: the reason for skipping it, or its timestamp and bytes.
DecodeRecord_KeepWithoutDetail(data) ==
    IF ~data.json THEN [skip |-> "unparseable", timestamp |-> -1, bytes |-> <<>>]
    ELSE IF data.timeKind = "absent" THEN [skip |-> "notime", timestamp |-> -1, bytes |-> <<>>]
    ELSE IF data.timeKind # "rfc3339" THEN [skip |-> "badtime", timestamp |-> -1, bytes |-> <<>>]
    ELSE [skip |-> "no", timestamp |-> data.time, bytes |-> Marshal(data.detail)]

DecodeRecord(data) ==
    IF ~data.json THEN [skip |-> "unparseable", timestamp |-> -1, bytes |-> <<>>]
    ELSE IF data.timeKind = "absent" THEN [skip |-> "notime", timestamp |-> -1, bytes |-> <<>>]
    ELSE IF data.timeKind # "rfc3339" THEN [skip |-> "badtime", timestamp |-> -1, bytes |-> <<>>]
    ELSE IF ~data.hasDetail THEN [skip |-> "nodetail", timestamp |-> -1, bytes |-> <<>>]
    ELSE [skip |-> "no", timestamp |-> data.time, bytes |-> Marshal(data.detail)]

\* ------------------------------------------------------------------------
\* One route: NewService's ml and t2o, and dumpRecordProcessor.ProcessRecords
\* ------------------------------------------------------------------------
ProcFrame == UNCHANGED <<idxVars, svcVars, sseVars, chkVars, cliVars, mrVars, ccVars>>

Records(p) == begun[batchId[p]].records

\* The record the loop of p is at.
Current(p) == Records(p)[bi[p]]

\* ProcessRecords is called with an input: records, numbered by the stream.
\* Lines 53-56: an empty input returns at once.
PRBegin(p, data) ==
    /\ p \in Procs
    /\ ~panicked
    /\ procPc[p] = "idle"
    /\ Len(begun) < MaxBatches
    /\ Len(data) + nextSeq - 1 <= MaxRecords
    /\ begun' = Append(begun,
                  [proc |-> p,
                   records |-> [i \in 1 .. Len(data) |->
                                  [data |-> data[i], seq |-> nextSeq + i - 1]]])
    /\ nextSeq' = nextSeq + Len(data)
    /\ batchId' = [batchId EXCEPT ![p] = Len(begun) + 1]
    /\ IF Len(data) = 0
       THEN /\ finished' = finished \cup {Len(begun) + 1}
            /\ UNCHANGED procPc
       ELSE /\ procPc' = [procPc EXCEPT ![p] = "lock"]
            /\ UNCHANGED finished
    /\ UNCHANGED <<ml, t2o, lock, bi, off, checkpointer, foreign, reason, checkpoints, panicked, applied>>
    /\ ProcFrame

\* ProcessRecords without waiting for the lock.
PRLock_NoWait(p) ==
    /\ p \in Procs
    /\ ~panicked
    /\ procPc[p] = "lock"
    /\ lock' = p
    /\ bi' = [bi EXCEPT ![p] = 1]
    /\ procPc' = [procPc EXCEPT ![p] = "loop"]
    /\ UNCHANGED <<ml, t2o, batchId, off, checkpointer, foreign, reason, nextSeq, checkpoints, panicked, begun,
                   applied, finished>>
    /\ ProcFrame

\* Line 58: dd.t2o.Lock().
PRLock(p) ==
    /\ p \in Procs
    /\ ~panicked
    /\ procPc[p] = "lock"
    /\ lock = "free"
    /\ lock' = p
    /\ bi' = [bi EXCEPT ![p] = 1]
    /\ procPc' = [procPc EXCEPT ![p] = "loop"]
    /\ UNCHANGED <<ml, t2o, batchId, off, checkpointer, foreign, reason, nextSeq, checkpoints, panicked, begun,
                   applied, finished>>
    /\ ProcFrame

\* Lines 59-94: one record, up to ml.Write: a record that does not decode,
\* or whose write fails, is skipped (continue).
PRRecord(p) ==
    /\ p \in Procs
    /\ ~panicked
    /\ procPc[p] = "loop"
    /\ bi[p] <= Len(Records(p))
    /\ applied' = Append(applied, Current(p))
    /\ LET d == DecodeRecord(Current(p).data)
           w == LogWrite(ml, d.bytes, d.timestamp)
       IN  IF d.skip # "no" \/ w.err
           THEN /\ bi' = [bi EXCEPT ![p] = @ + 1]
                /\ UNCHANGED <<ml, off, procPc>>
           ELSE /\ ml' = w.log
                /\ off' = [off EXCEPT ![p] = w.offset]
                /\ procPc' = [procPc EXCEPT ![p] = "add"]
                /\ UNCHANGED bi
    /\ UNCHANGED <<t2o, lock, batchId, checkpointer, foreign, reason, nextSeq, checkpoints, panicked,
                   begun, finished>>
    /\ ProcFrame

\* Lines 96-100 with Add lines 84-112: the checks of t2o.Add and its
\* eviction; an error of Add panics.
PRAddEvict_Swallow(p) ==
    /\ p \in Procs
    /\ ~panicked
    /\ procPc[p] = "add"
    /\ LET c == AddCheck(t2o, off[p])
           e == AddEvict(c.m, off[p])
       IN  IF c.err # "nil" \/ e.err # "nil"
           THEN /\ bi' = [bi EXCEPT ![p] = @ + 1]
                /\ procPc' = [procPc EXCEPT ![p] = "loop"]
                /\ UNCHANGED <<t2o, panicked>>
           ELSE /\ t2o' = e.m
                /\ procPc' = [procPc EXCEPT ![p] = "insert"]
                /\ UNCHANGED <<panicked, bi>>
    /\ UNCHANGED <<ml, lock, batchId, off, checkpointer, foreign, reason, nextSeq, checkpoints, begun,
                   applied, finished>>
    /\ ProcFrame

PRAddEvict(p) ==
    /\ p \in Procs
    /\ ~panicked
    /\ procPc[p] = "add"
    /\ LET c == AddCheck(t2o, off[p])
           e == AddEvict(c.m, off[p])
       IN  IF c.err # "nil" \/ e.err # "nil"
           THEN /\ panicked' = TRUE
                /\ UNCHANGED <<t2o, procPc>>
           ELSE /\ t2o' = e.m
                /\ procPc' = [procPc EXCEPT ![p] = "insert"]
                /\ UNCHANGED panicked
    /\ UNCHANGED <<ml, lock, batchId, bi, off, checkpointer, foreign, reason, nextSeq, checkpoints, begun,
                   applied, finished>>
    /\ ProcFrame

\* The insertion with the time of the call instead of the record's.
PRAddInsert_Now(p) ==
    /\ p \in Procs
    /\ ~panicked
    /\ procPc[p] = "insert"
    /\ t2o' = AddInsert(t2o, off[p], MaxTs)
    /\ bi' = [bi EXCEPT ![p] = @ + 1]
    /\ procPc' = [procPc EXCEPT ![p] = "loop"]
    /\ UNCHANGED <<ml, lock, batchId, off, checkpointer, foreign, reason, nextSeq, checkpoints, panicked, begun,
                   applied, finished>>
    /\ ProcFrame

\* Add lines 114-125: the insertion; then the loop goes on.
PRAddInsert(p) ==
    /\ p \in Procs
    /\ ~panicked
    /\ procPc[p] = "insert"
    /\ t2o' = AddInsert(t2o, off[p], DecodeRecord(Current(p).data).timestamp)
    /\ bi' = [bi EXCEPT ![p] = @ + 1]
    /\ procPc' = [procPc EXCEPT ![p] = "loop"]
    /\ UNCHANGED <<ml, lock, batchId, off, checkpointer, foreign, reason, nextSeq, checkpoints, panicked, begun,
                   applied, finished>>
    /\ ProcFrame

\* Line 102: dd.t2o.Unlock() after the last record.
PRUnlock(p) ==
    /\ p \in Procs
    /\ ~panicked
    /\ procPc[p] = "loop"
    /\ bi[p] > Len(Records(p))
    /\ lock' = "free"
    /\ procPc' = [procPc EXCEPT ![p] = "checkpoint"]
    /\ UNCHANGED <<ml, t2o, batchId, bi, off, checkpointer, foreign, reason, nextSeq, checkpoints, panicked, begun,
                   applied, finished>>
    /\ ProcFrame

\* Line 107: the sequence number of the last record of the input.
LastRecordSequenceNumber_First(records) == records[1].seq

LastRecordSequenceNumber(records) == records[Len(records)].seq

\* Lines 107-116: with a checkpointer, Checkpoint(lastRecordSequenceNumber);
\* then ProcessRecords returns.
PRCheckpoint(p) ==
    /\ p \in Procs
    /\ ~panicked
    /\ procPc[p] = "checkpoint"
    /\ IF checkpointer[p]
       THEN checkpoints' = Append(checkpoints,
                             [input |-> batchId[p],
                              position |-> LastRecordSequenceNumber(Records(p)),
                              done |-> bi[p] - 1])
       ELSE UNCHANGED checkpoints
    /\ finished' = finished \cup {batchId[p]}
    /\ procPc' = [procPc EXCEPT ![p] = "idle"]
    /\ UNCHANGED <<ml, t2o, lock, batchId, bi, off, checkpointer, foreign, reason, nextSeq, panicked, begun, applied>>
    /\ ProcFrame

InitProc ==
    /\ \E capacity \in {1, MaxCap}, c \in BOOLEAN : RouteInitial(capacity, [p \in {"p1"} |-> c])
    /\ IdxInitial
    /\ SvcInitial(FALSE)
    /\ HandlerInitial
    /\ ChkInitial
    /\ CliInitial
    /\ MrInitial
    /\ CcInitial

NextProc ==
    \/ \E p \in AllProcs, data \in SeqsUpTo(RecordData, MaxBatch) : PRBegin(p, data)
    \/ \E p \in AllProcs : PRLock(p)
    \/ \E p \in AllProcs : PRRecord(p)
    \/ \E p \in AllProcs : PRAddEvict(p)
    \/ \E p \in AllProcs : PRAddInsert(p)
    \/ \E p \in AllProcs : PRUnlock(p)
    \/ \E p \in AllProcs : PRCheckpoint(p)

SpecProc == InitProc /\ [][NextProc]_vars

\* ------------------------------------------------------------------------
\* Service.handleFunc: one request on the route's pattern
\* ------------------------------------------------------------------------
HandlerFrame == UNCHANGED <<idxVars, svcVars, procVars, chkVars, cliVars, mrVars, ccVars>>

\* The offset of the oldest record the Log still holds. memlog keeps the
\* active segment and the one before it, each of `size` records.
LogEarliest(log, size) ==
    IF Len(log) = 0 THEN -1
    ELSE LET active == ((Len(log) - 1) \div size) * size
         IN  IF active >= size THEN active - size ELSE 0

\* The records ingested beside the requests: well-formed, with equal,
\* increasing and decreasing times.
StreamData ==
    {Doc(TRUE, "rfc3339", 0, TRUE, <<2, 1>>),
     Doc(TRUE, "rfc3339", 1, TRUE, <<1>>)}

\* time.Now() of the requests.
Now == MaxTs

\* The values of the "since" query parameter: none, an RFC3339 timestamp
\* (the time of some record), a duration, anything else.
SinceParams ==
    {[kind |-> "empty", v |-> 0], [kind |-> "bogus", v |-> 0], [kind |-> "duration", v |-> 1]}
       \cup {[kind |-> "rfc3339", v |-> d.time] : d \in StreamData}

\* Lines 226-242: no timestamp without "since"; the RFC3339 time, else the
\* time that long ago, else an error.
ParseSince(since) ==
    IF since.kind = "empty" THEN [err |-> FALSE, timestamp |-> NoTimestamp]
    ELSE IF since.kind = "rfc3339" THEN [err |-> FALSE, timestamp |-> since.v]
    ELSE IF since.kind = "duration" THEN [err |-> FALSE, timestamp |-> Now - since.v]
    ELSE [err |-> TRUE, timestamp |-> NoTimestamp]

\* Lines 254-257: the latest offset of the Log, 0 for an empty Log.
LatestOrZero_NoClamp(latest) == latest

LatestOrZero(latest) == IF latest < 0 THEN 0 ELSE latest

\* Lines 260-263: the offset found by the lookup replaces off.
ResolvedOffset_Ignore(o, found, nearestOff) == o

ResolvedOffset(o, found, nearestOff) == IF found THEN nearestOff ELSE o

\* flusher.Flush(), lines 251 and 275: what was written goes to the client.
Flush_Nothing(h) == h

Flush(h) == [h EXCEPT !.flushed = Len(h.frames)]

\* Lines 217-251: the request arrives; 500 without http.Flusher, 400 for a
\* "since" that does not parse, else the ":ok" frame, flushed (a failed
\* write of it ends the call).
HRequest(c, canFlush, since, written) ==
    /\ hdl[c].pc = "idle"
    /\ LET p == ParseSince(since)
           h == [hdl[c] EXCEPT !.connLatest = LogLatest(ml),
                               !.req = [canFlush |-> canFlush, since |-> since]]
       IN  hdl' = [hdl EXCEPT ![c] =
              IF ~canFlush THEN [h EXCEPT !.pc = "done", !.status = 500]
              ELSE IF p.err THEN [h EXCEPT !.pc = "done", !.status = 400]
              ELSE IF ~written THEN [h EXCEPT !.pc = "done", !.status = 200,
                                              !.timestamp = p.timestamp]
              ELSE Flush([h EXCEPT !.pc = "range", !.status = 200,
                                   !.timestamp = p.timestamp,
                                   !.frames = <<":ok">>])]
    /\ HandlerFrame

\* Lines 253-257: off starts as the latest offset of the Log.
HRange(c) ==
    /\ hdl[c].pc = "range"
    /\ hdl' = [hdl EXCEPT ![c].off = LatestOrZero(LogLatest(ml)),
                          ![c].pc = IF hdl[c].timestamp = NoTimestamp
                                    THEN "stream" ELSE "forward"]
    /\ HandlerFrame

\* The forward search made only while nobody holds t2o's lock.
HNearestForward_Locked(c) ==
    /\ hdl[c].pc = "forward"
    /\ lock = "free"
    /\ LET f == NearestForward(t2o, hdl[c].timestamp)
       IN  hdl' = [hdl EXCEPT ![c].off = ResolvedOffset(@, ~f.eof, f.k.offset),
                              ![c].pc = IF f.eof THEN "backward" ELSE "stream"]
    /\ HandlerFrame

\* Line 261 with NearestOffset lines 62-71, made without t2o's lock, so at
\* any point of a running Add: the forward search.
HNearestForward(c) ==
    /\ hdl[c].pc = "forward"
    /\ LET f == NearestForward(t2o, hdl[c].timestamp)
       IN  hdl' = [hdl EXCEPT ![c].off = ResolvedOffset(@, ~f.eof, f.k.offset),
                              ![c].pc = IF f.eof THEN "backward" ELSE "stream"]
    /\ HandlerFrame

\* NearestOffset lines 73-79: the backward search; then ml.Stream(off).
HNearestBackward(c) ==
    /\ hdl[c].pc = "backward"
    /\ LET b == NearestBackward(t2o, hdl[c].timestamp)
       IN  hdl' = [hdl EXCEPT ![c].off = ResolvedOffset(@, ~b.eof, b.k.offset),
                              ![c].pc = "stream"]
    /\ HandlerFrame

\* Lines 268-277: stream.Next has the record at the stream's offset, which
\* is written as a frame and flushed; Next fails, and the loop ends, for a record that
\* the Log has purged.
HNext(c) ==
    /\ hdl[c].pc = "stream"
    /\ hdl[c].off < Len(ml)
    /\ hdl' = [hdl EXCEPT ![c] =
          IF hdl[c].off < LogEarliest(ml, t2o.capacity)
          THEN [@ EXCEPT !.pc = "done"]
          ELSE Flush([@ EXCEPT !.frames = Append(@, ml[hdl[c].off + 1].data),
                               !.sent = Append(@, hdl[c].off),
                               !.off = @ + 1])]
    /\ HandlerFrame

\* Lines 268, 272, 280: the client has gone (the request's context is
\* done, or the write fails): the loop ends.
HDisconnect(c) ==
    /\ hdl[c].pc = "stream"
    /\ hdl' = [hdl EXCEPT ![c].pc = "done"]
    /\ HandlerFrame

InitSse ==
    /\ \E capacity \in {1, MaxCap} : RouteInitial(capacity, [p \in {"p1"} |-> TRUE])
    /\ IdxInitial
    /\ SvcInitial(FALSE)
    /\ HandlerInitial
    /\ ChkInitial
    /\ CliInitial
    /\ MrInitial
    /\ CcInitial

NextSse ==
    \/ \E p \in AllProcs, data \in SeqsUpTo(StreamData, MaxBatch) : PRBegin(p, data)
    \/ \E p \in AllProcs : PRLock(p)
    \/ \E p \in AllProcs : PRRecord(p)
    \/ \E p \in AllProcs : PRAddEvict(p)
    \/ \E p \in AllProcs : PRAddInsert(p)
    \/ \E p \in AllProcs : PRUnlock(p)
    \/ \E p \in AllProcs : PRCheckpoint(p)
    \/ \E c \in AllClients, canFlush \in BOOLEAN, since \in SinceParams, written \in BOOLEAN :
          HRequest(c, canFlush, since, written)
    \/ \E c \in AllClients : HRange(c)
    \/ \E c \in AllClients : HNearestForward(c)
    \/ \E c \in AllClients : HNearestBackward(c)
    \/ \E c \in AllClients : HNext(c)
    \/ \E c \in AllClients : HDisconnect(c)

SpecSse == InitSse /\ [][NextSse]_vars

\* The handler's goroutine is scheduled, and a memlog stream polls the Log.
FairSpecSse ==
    /\ SpecSse
    /\ \A c \in AllClients :
          /\ WF_vars(HRange(c))
          /\ WF_vars(HNearestForward(c))
          /\ WF_vars(HNearestBackward(c))
          /\ WF_vars(HNext(c))


\* ------------------------------------------------------------------------
\* SpecServe: a Service without KCL workers (disableKCL) is started, serves
\* requests on a route nobody writes to, and is stopped
\* ------------------------------------------------------------------------
\* Lines 118-120 and 169: the server hands a request to the handler while
\* it is serving.
HRequestServed(c, canFlush, since, written) ==
    /\ srv = "serving"
    /\ HRequest(c, canFlush, since, written)

InitServe ==
    /\ SvcInitial(TRUE)
    /\ IdxInitial
    /\ RouteInitial(1, <<>>)
    /\ HandlerInitial
    /\ ChkInitial
    /\ CliInitial
    /\ MrInitial
    /\ CcInitial

NextServe ==
    \/ StartCall
    \/ \E r \in Routes, ok \in BOOLEAN : StartWorker(r, ok)
    \/ StartRollback
    \/ \E ok \in BOOLEAN, a \in ListenAddrs : StartListen(ok, a)
    \/ StartPublish
    \/ StartBroadcast
    \/ StartServe
    \/ \E failed \in BOOLEAN : StartServeReturn(failed)
    \/ StopCancel
    \/ \E r \in Routes : StopSpawn(r)
    \/ StopHttpShutdown
    \/ \E err \in {"nil", "error"} : StopHttpReturn(err)
    \/ StopWait
    \/ \E c \in AllClients, canFlush \in BOOLEAN, since \in SinceParams, written \in BOOLEAN :
          HRequestServed(c, canFlush, since, written)
    \/ \E c \in AllClients : HRange(c)
    \/ \E c \in AllClients : HNearestForward(c)
    \/ \E c \in AllClients : HNearestBackward(c)
    \/ \E c \in AllClients : HDisconnect(c)

SpecServe == InitServe /\ [][NextServe]_vars

\* The goroutines of Stop and of the handlers are scheduled.
FairSpecServe ==
    /\ SpecServe
    /\ WF_vars(StopCancel)
    /\ WF_vars(\E r \in Routes : StopSpawn(r))
    /\ WF_vars(StopHttpShutdown)
    /\ WF_vars(\E err \in {"nil", "error"} : StopHttpReturn(err))
    /\ WF_vars(StopWait)
    /\ \A c \in AllClients :
          /\ WF_vars(HRange(c))
          /\ WF_vars(HNearestForward(c))
          /\ WF_vars(HNearestBackward(c))

\* ------------------------------------------------------------------------
\* SpecFault: ProcessRecords on a route whose Log and index are also
\* called directly, as the tests do (record_processor_test.go, lines 155-163)
\* ------------------------------------------------------------------------
\* ml.Write called directly, without an Add.
DirectWrite(data) ==
    /\ ~panicked
    /\ foreign < MaxForeign
    /\ foreign' = foreign + 1
    /\ ml' = LogWrite(ml, Marshal(data.detail), data.time).log
    /\ UNCHANGED <<t2o, lock, procPc, batchId, bi, off, checkpointer, reason, nextSeq, checkpoints,
                   panicked, begun, applied, finished>>
    /\ ProcFrame

\* t2o.Add called directly (without the lock), for the next offset of the
\* Log, without a Write.
DirectAdd(timestamp) ==
    /\ ~panicked
    /\ foreign < MaxForeign
    /\ \A p \in Procs : procPc[p] \notin {"add", "insert"}
    /\ foreign' = foreign + 1
    /\ t2o' = Add(t2o, LogLatest(ml) + 1, timestamp).m
    /\ UNCHANGED <<ml, lock, procPc, batchId, bi, off, checkpointer, reason, nextSeq, checkpoints,
                   panicked, begun, applied, finished>>
    /\ ProcFrame

InitFault ==
    /\ \E capacity \in {1, MaxCap} : RouteInitial(capacity, [p \in {"p1"} |-> TRUE])
    /\ IdxInitial
    /\ SvcInitial(FALSE)
    /\ HandlerInitial
    /\ ChkInitial
    /\ CliInitial
    /\ MrInitial
    /\ CcInitial

NextFault ==
    \/ \E p \in AllProcs, data \in SeqsUpTo(StreamData, MaxBatch) : PRBegin(p, data)
    \/ \E p \in AllProcs : PRLock(p)
    \/ \E p \in AllProcs : PRRecord(p)
    \/ \E p \in AllProcs : PRAddEvict(p)
    \/ \E p \in AllProcs : PRAddInsert(p)
    \/ \E p \in AllProcs : PRUnlock(p)
    \/ \E p \in AllProcs : PRCheckpoint(p)
    \/ \E data \in StreamData : DirectWrite(data)
    \/ \E data \in StreamData : DirectAdd(data.time)

SpecFault == InitFault /\ [][NextFault]_vars

\* ------------------------------------------------------------------------
\* SpecConc: two record processors of one route (two shards of its stream),
\* whose ProcessRecords calls run concurrently
\* ------------------------------------------------------------------------
InitConc ==
    /\ \E capacity \in {1, MaxCap} : RouteInitial(capacity, [p \in AllProcs |-> TRUE])
    /\ IdxInitial
    /\ SvcInitial(FALSE)
    /\ HandlerInitial
    /\ ChkInitial
    /\ CliInitial
    /\ MrInitial
    /\ CcInitial

NextConc ==
    \/ \E p \in AllProcs, data \in SeqsUpTo(StreamData, MaxBatch) : PRBegin(p, data)
    \/ \E p \in AllProcs : PRLock(p)
    \/ \E p \in AllProcs : PRRecord(p)
    \/ \E p \in AllProcs : PRAddEvict(p)
    \/ \E p \in AllProcs : PRAddInsert(p)
    \/ \E p \in AllProcs : PRUnlock(p)
    \/ \E p \in AllProcs : PRCheckpoint(p)

SpecConc == InitConc /\ [][NextConc]_vars

\* ------------------------------------------------------------------------
\* dumpRecordProcessor.Shutdown, and SpecShutdown: a processor of the KCL
\* worker processes records and is shut down
\* ------------------------------------------------------------------------
ShutdownReasons == {"REQUESTED", "TERMINATE", "ZOMBIE"}

\* Checkpoint(nil): the position of the terminal checkpoint.
NilSequenceNumber == 0

\* Line 124.
ShouldCheckpoint_Always(r) == TRUE

ShouldCheckpoint(r) == r = "TERMINATE"

\* Lines 118-127: the worker notifies the processor, between two calls of
\* ProcessRecords, that it is shut down, with a reason and its checkpointer.
Shutdown(p, r) ==
    /\ p \in Procs
    /\ ~panicked
    /\ procPc[p] = "idle"
    /\ checkpointer[p]
    /\ reason' = [reason EXCEPT ![p] = r]
    /\ procPc' = [procPc EXCEPT ![p] = "shutdown"]
    /\ IF ShouldCheckpoint(r)
       THEN checkpoints' = Append(checkpoints,
                             [input |-> 0, position |-> NilSequenceNumber, done |-> 0])
       ELSE UNCHANGED checkpoints
    /\ UNCHANGED <<ml, t2o, lock, batchId, bi, off, checkpointer, foreign, nextSeq, panicked,
                   begun, applied, finished>>
    /\ ProcFrame

InitShutdown ==
    /\ RouteInitial(MaxCap, [p \in {"p1"} |-> TRUE])
    /\ IdxInitial
    /\ SvcInitial(FALSE)
    /\ HandlerInitial
    /\ ChkInitial
    /\ CliInitial
    /\ MrInitial
    /\ CcInitial

NextShutdown ==
    \/ \E p \in AllProcs, data \in SeqsUpTo(RecordData, MaxBatch) : PRBegin(p, data)
    \/ \E p \in AllProcs : PRLock(p)
    \/ \E p \in AllProcs : PRRecord(p)
    \/ \E p \in AllProcs : PRAddEvict(p)
    \/ \E p \in AllProcs : PRAddInsert(p)
    \/ \E p \in AllProcs : PRUnlock(p)
    \/ \E p \in AllProcs : PRCheckpoint(p)
    \/ \E p \in AllProcs, r \in ShutdownReasons : Shutdown(p, r)

SpecShutdown == InitShutdown /\ [][NextShutdown]_vars

\* ------------------------------------------------------------------------
\* inMemoryCheckpointer, and SpecChk: any sequence of calls on it, one at a
\* time, by a worker that updates its shard statuses in between
\* ------------------------------------------------------------------------
ChkFrame == UNCHANGED <<idxVars, svcVars, procVars, sseVars, cliVars, mrVars, ccVars>>

ErrSequenceIDNotFound == "ErrSequenceIDNotFound"

ErrShardNotAssigned == "ErrShardNotAssigned"

NoItem == [sequenceNumber |-> "", leaseTimeout |-> NoLeaseTimeout, parentShardId |-> ""]

\* saveItem, getItem, removeItem (lines 157-178), each under the lock.
saveItem(its, shardID, item) == MapSet(its, shardID, item)

getItem(its, shardID) ==
    IF shardID \in DOMAIN its
    THEN [item |-> its[shardID], err |-> "nil"]
    ELSE [item |-> NoItem, err |-> ErrSequenceIDNotFound]

removeItem(its, shardID) == MapDelete(its, shardID)

\* Lines 59-71: the item saved for a shard status.
ItemOf(shard) ==
    [sequenceNumber |-> shard.Checkpoint, leaseTimeout |-> shard.LeaseTimeout,
     parentShardId |-> shard.ParentShardId]

\* FetchCheckpoint, lines 73-88: the error and the shard status afterwards.
FetchCheckpoint_Zero(its, shardID, shard) ==
    LET g == getItem(its, shardID)
    IN  [err |-> g.err,
         shard |-> [shard EXCEPT !.Checkpoint = g.item.sequenceNumber,
                                 !.AssignedTo = WorkerID,
                                 !.LeaseTimeout = g.item.leaseTimeout]]

FetchCheckpoint(its, shardID, shard) ==
    LET g == getItem(its, shardID)
    IN  IF g.err # "nil" THEN [err |-> g.err, shard |-> shard]
        ELSE [err |-> "nil",
              shard |-> [shard EXCEPT !.Checkpoint = g.item.sequenceNumber,
                                      !.AssignedTo = WorkerID,
                                      !.LeaseTimeout = g.item.leaseTimeout]]

\* ClaimShard, lines 140-155: fetch, tolerating "not found", then save.
ClaimShard_Reset(its, shardID, shard) ==
    [err |-> "nil", shard |-> shard, items |-> saveItem(its, shardID, NoItem)]

ClaimShard(its, shardID, shard) ==
    LET f == FetchCheckpoint(its, shardID, shard)
    IN  IF f.err # "nil" /\ f.err # ErrSequenceIDNotFound
        THEN [err |-> f.err, shard |-> f.shard, items |-> its]
        ELSE [err |-> "nil", shard |-> f.shard,
              items |-> saveItem(its, shardID, ItemOf(f.shard))]

\* ListActiveWorkers, lines 115-138: the loop over the map of shard
\* statuses, visited in the order `order`, from its i-th element on.
RECURSIVE ListLoop_CountShardEnd(_, _, _, _)
ListLoop_CountShardEnd(statuses, order, i, workers) ==
    IF i > Len(order) THEN [err |-> "nil", workers |-> workers]
    ELSE LET shard == statuses[order[i]]
             leaseOwner == shard.AssignedTo
         IN  IF leaseOwner = ""
             THEN [err |-> ErrShardNotAssigned, workers |-> EmptyMap]
             ELSE ListLoop_CountShardEnd(statuses, order, i + 1,
                     MapSet(workers, leaseOwner,
                            IF leaseOwner \in DOMAIN workers
                            THEN Append(workers[leaseOwner], order[i])
                            ELSE <<order[i]>>))

RECURSIVE ListLoop(_, _, _, _)
ListLoop(statuses, order, i, workers) ==
    IF i > Len(order) THEN [err |-> "nil", workers |-> workers]
    ELSE LET shard == statuses[order[i]]
             leaseOwner == shard.AssignedTo
         IN  IF shard.Checkpoint = ShardEnd
             THEN ListLoop(statuses, order, i + 1, workers)
             ELSE IF leaseOwner = ""
             THEN [err |-> ErrShardNotAssigned, workers |-> EmptyMap]
             ELSE ListLoop(statuses, order, i + 1,
                     MapSet(workers, leaseOwner,
                            IF leaseOwner \in DOMAIN workers
                            THEN Append(workers[leaseOwner], order[i])
                            ELSE <<order[i]>>))

ListActiveWorkers(statuses, order) == ListLoop(statuses, order, 1, EmptyMap)

\* The orders in which a map of some of the shards may be ranged over.
ShardOrders ==
    {q \in SeqsUpTo(AllShards, Cardinality(AllShards)) :
        \A i, j \in 1 .. Len(q) : i # j => q[i] # q[j]}

\* The worker moves a shard's in-memory position (par.ShardStatus.SetCheckpoint),
\* as it does before CheckpointSequence.
ChkSetCheckpoint(sh, seq) ==
    /\ shardStatus[sh].Checkpoint # seq
    /\ shardStatus' = [shardStatus EXCEPT ![sh].Checkpoint = seq]
    /\ chkOp' = [op |-> "SetCheckpoint", shard |-> sh, err |-> "nil", result |-> <<>>]
    /\ UNCHANGED <<items, saved>>
    /\ ChkFrame

\* GetLease, lines 45-57.
ChkGetLease(sh, newAssignTo) ==
    /\ shardStatus' = [shardStatus EXCEPT ![sh].AssignedTo = newAssignTo,
                                          ![sh].LeaseTimeout = NewLeaseTimeout]
    /\ chkOp' = [op |-> "GetLease", shard |-> sh, err |-> "nil", result |-> <<>>]
    /\ UNCHANGED <<items, saved>>
    /\ ChkFrame

\* CheckpointSequence, lines 59-71.
ChkCheckpointSequence(sh) ==
    /\ items' = saveItem(items, sh, ItemOf(shardStatus[sh]))
    /\ saved' = [saved EXCEPT ![sh] = shardStatus[sh].Checkpoint]
    /\ chkOp' = [op |-> "CheckpointSequence", shard |-> sh, err |-> "nil", result |-> <<>>]
    /\ UNCHANGED shardStatus
    /\ ChkFrame

\* FetchCheckpoint, lines 73-88.
ChkFetchCheckpoint(sh) ==
    LET f == FetchCheckpoint(items, sh, shardStatus[sh])
    IN  /\ shardStatus' = [shardStatus EXCEPT ![sh] = f.shard]
        /\ chkOp' = [op |-> "FetchCheckpoint", shard |-> sh, err |-> f.err, result |-> <<>>]
        /\ UNCHANGED <<items, saved>>
        /\ ChkFrame

\* RemoveLeaseInfo, lines 90-95.
ChkRemoveLeaseInfo(sh) ==
    /\ items' = removeItem(items, sh)
    /\ saved' = [saved EXCEPT ![sh] = "none"]
    /\ chkOp' = [op |-> "RemoveLeaseInfo", shard |-> sh, err |-> "nil", result |-> <<>>]
    /\ UNCHANGED shardStatus
    /\ ChkFrame

\* RemoveLeaseOwner, lines 97-102.
ChkRemoveLeaseOwner(sh) ==
    /\ items' = removeItem(items, sh)
    /\ saved' = [saved EXCEPT ![sh] = "none"]
    /\ chkOp' = [op |-> "RemoveLeaseOwner", shard |-> sh, err |-> "nil", result |-> <<>>]
    /\ UNCHANGED shardStatus
    /\ ChkFrame

\* GetLeaseOwner, lines 104-113.
ChkGetLeaseOwner(sh) ==
    LET g == getItem(items, sh)
    IN  /\ chkOp' = [op |-> "GetLeaseOwner", shard |-> sh, err |-> g.err,
                     result |-> IF g.err = "nil" THEN <<WorkerID>> ELSE <<"">>]
        /\ UNCHANGED <<items, shardStatus, saved>>
        /\ ChkFrame

\* ListActiveWorkers, lines 115-138, over the shards of `order`.
ChkListActiveWorkers(order) ==
    LET r == ListActiveWorkers(shardStatus, order)
    IN  /\ chkOp' = [op |-> "ListActiveWorkers", shard |-> order, err |-> r.err,
                     result |-> r.workers]
        /\ UNCHANGED <<items, shardStatus, saved>>
        /\ ChkFrame

\* ClaimShard, lines 140-155.
ChkClaimShard(sh) ==
    LET c == ClaimShard(items, sh, shardStatus[sh])
    IN  /\ items' = c.items
        /\ shardStatus' = [shardStatus EXCEPT ![sh] = c.shard]
        /\ saved' = [saved EXCEPT ![sh] =
                       IF @ = "none" THEN shardStatus[sh].Checkpoint ELSE @]
        /\ chkOp' = [op |-> "ClaimShard", shard |-> sh, err |-> c.err, result |-> <<>>]
        /\ ChkFrame

InitChk ==
    /\ ChkInitial
    /\ CliInitial
    /\ MrInitial
    /\ CcInitial
    /\ IdxInitial
    /\ SvcInitial(FALSE)
    /\ RouteInitial(1, <<>>)
    /\ HandlerInitial

NextChk ==
    \/ \E sh \in AllShards, seq \in SequenceNumbers : ChkSetCheckpoint(sh, seq)
    \/ \E sh \in AllShards, newAssignTo \in WorkerIDs : ChkGetLease(sh, newAssignTo)
    \/ \E sh \in AllShards : ChkCheckpointSequence(sh)
    \/ \E sh \in AllShards : ChkFetchCheckpoint(sh)
    \/ \E sh \in AllShards : ChkRemoveLeaseInfo(sh)
    \/ \E sh \in AllShards : ChkRemoveLeaseOwner(sh)
    \/ \E sh \in AllShards : ChkGetLeaseOwner(sh)
    \/ \E order \in ShardOrders : ChkListActiveWorkers(order)
    \/ \E sh \in AllShards : ChkClaimShard(sh)

SpecChk == InitChk /\ [][NextChk]_vars

\* ------------------------------------------------------------------------
\* SpecChkConc: the checkpointer called by the shard consumer and the
\* worker's event loop at the same time.  checkpointer.lock is held inside
\* saveItem, getItem and removeItem only (lines 157-178), so each of them is
\* one step and a method is the sequence of its steps.
\* ------------------------------------------------------------------------
CcFrame == UNCHANGED <<idxVars, svcVars, procVars, sseVars, cliVars, mrVars>>

\* The positions the consumer checkpoints at, in stream order.
ConsumerCheckpoints == <<"49590", ShardEnd>>

\* The consumer moves the shard's position on and calls CheckpointSequence.
CcSetCheckpoint(sh) ==
    /\ calls.caller["consumer"].pc = "idle"
    /\ calls.made[sh] < Len(ConsumerCheckpoints)
    /\ shardStatus' = [shardStatus EXCEPT
                          ![sh].Checkpoint = ConsumerCheckpoints[calls.made[sh] + 1]]
    /\ calls' = [calls EXCEPT
                    !.made[sh] = @ + 1,
                    !.caller["consumer"] =
                        [pc |-> "item", op |-> "CheckpointSequence", shard |-> sh,
                         item |-> <<>>]]
    /\ UNCHANGED <<items, chkOp, saved>>
    /\ CcFrame

\* CheckpointSequence, lines 62-68: the item is built from the shard status.
CcCheckpointItem ==
    LET call == calls.caller["consumer"]
    IN  /\ call.pc = "item"
        /\ calls' = [calls EXCEPT !.caller["consumer"] =
                        [call EXCEPT !.pc = "save",
                                     !.item = ItemOf(shardStatus[call.shard])]]
        /\ UNCHANGED <<items, shardStatus, chkOp, saved>>
        /\ CcFrame

\* CheckpointSequence, line 70: saveItem.
CcCheckpointSave ==
    LET call == calls.caller["consumer"]
    IN  /\ call.pc = "save"
        /\ items' = saveItem(items, call.shard, call.item)
        /\ saved' = [saved EXCEPT ![call.shard] = call.item.sequenceNumber]
        /\ calls' = [calls EXCEPT
                        !.committed[call.shard] = call.item.sequenceNumber,
                        !.caller["consumer"] = NoCall]
        /\ UNCHANGED <<shardStatus, chkOp>>
        /\ CcFrame

\* FetchCheckpoint, lines 76-79, called directly or by ClaimShard (line 143):
\* getItem.  A failed FetchCheckpoint returns; ClaimShard goes on after "not
\* found" (lines 144-146), the only error of getItem.
CcFetchGet(sh, op) ==
    LET g == getItem(items, sh)
    IN  /\ calls.caller["worker"].pc = "idle"
        /\ calls' = [calls EXCEPT !.caller["worker"] =
                        IF g.err = "nil"
                        THEN [pc |-> "set", op |-> op, shard |-> sh, item |-> g.item]
                        ELSE IF op = "ClaimShard"
                        THEN [pc |-> "item", op |-> op, shard |-> sh, item |-> <<>>]
                        ELSE NoCall]
        /\ UNCHANGED <<items, shardStatus, chkOp, saved>>
        /\ CcFrame

\* FetchCheckpoint, lines 81-85: the shard status takes the item read.
CcFetchSet ==
    LET call == calls.caller["worker"]
    IN  /\ call.pc = "set"
        /\ shardStatus' = [shardStatus EXCEPT
                              ![call.shard].Checkpoint = call.item.sequenceNumber,
                              ![call.shard].AssignedTo = WorkerID,
                              ![call.shard].LeaseTimeout = call.item.leaseTimeout]
        /\ calls' = [calls EXCEPT !.caller["worker"] =
                        IF call.op = "ClaimShard"
                        THEN [call EXCEPT !.pc = "item", !.item = <<>>]
                        ELSE NoCall]
        /\ UNCHANGED <<items, chkOp, saved>>
        /\ CcFrame

\* ClaimShard, lines 148-152: the item is built from the shard status.
CcClaimItem ==
    LET call == calls.caller["worker"]
    IN  /\ call.pc = "item"
        /\ calls' = [calls EXCEPT !.caller["worker"] =
                        [call EXCEPT !.pc = "save",
                                     !.item = ItemOf(shardStatus[call.shard])]]
        /\ UNCHANGED <<items, shardStatus, chkOp, saved>>
        /\ CcFrame

\* ClaimShard, line 154: saveItem.
CcClaimSave ==
    LET call == calls.caller["worker"]
    IN  /\ call.pc = "save"
        /\ items' = saveItem(items, call.shard, call.item)
        /\ saved' = [saved EXCEPT ![call.shard] = call.item.sequenceNumber]
        /\ calls' = [calls EXCEPT !.caller["worker"] = NoCall]
        /\ UNCHANGED <<shardStatus, chkOp>>
        /\ CcFrame

InitChkConc == InitChk

NextChkConc ==
    \/ \E sh \in AllShards : CcSetCheckpoint(sh)
    \/ CcCheckpointItem
    \/ CcCheckpointSave
    \/ \E sh \in AllShards, op \in {"FetchCheckpoint", "ClaimShard"} : CcFetchGet(sh, op)
    \/ CcFetchSet
    \/ CcClaimItem
    \/ CcClaimSave

SpecChkConc == InitChkConc /\ [][NextChkConc]_vars

\* ------------------------------------------------------------------------
\* SpecCli: the command's loop over the routes given to it (kinesis2sse.go)
\* ------------------------------------------------------------------------
CliFrame == UNCHANGED <<idxVars, svcVars, procVars, sseVars, chkVars, mrVars, ccVars>>

\* The values of a route's "start": none, the two names, an RFC3339
\* timestamp, a duration, anything else.
StartValues ==
    {[kind |-> "empty", v |-> 0], [kind |-> "LATEST", v |-> 0],
     [kind |-> "TRIM_HORIZON", v |-> 0], [kind |-> "bogus", v |-> 0]}
       \cup {[kind |-> "rfc3339", v |-> t] : t \in {0, 1}}
       \cup {[kind |-> "duration", v |-> d] : d \in {1, 2}}

\* The routes of the command line.
RouteOptionsCLI == [Path : {"", "/foo"}, Stream : {"", "stream"}, Start : StartValues]

\* time.Parse(time.RFC3339, start): the zero time and an error for
\* anything but a timestamp.
ParseTime(start) ==
    IF start.kind = "rfc3339" THEN [err |-> FALSE, ts |-> start.v]
    ELSE [err |-> TRUE, ts |-> 0]

\* time.ParseDuration(start): 0 and an error for anything but a duration.
ParseDuration(start) ==
    IF start.kind = "duration" THEN [err |-> FALSE, d |-> start.v]
    ELSE [err |-> TRUE, d |-> 0]

\* cfg.NewKinesisClientLibConfig: the library's default position, LATEST.
NewKinesisClientLibConfig == [InitialPositionInStream |-> "LATEST", Timestamp |-> NoTimestamp]

WithInitialPositionInStream(kclConfig, position) ==
    [kclConfig EXCEPT !.InitialPositionInStream = position]

WithTimestampAtInitialPositionInStream(kclConfig, ts) ==
    [InitialPositionInStream |-> "AT_TIMESTAMP", Timestamp |-> ts]

\* Lines 117-126: the chain of tests on Start. The last branch is taken
\* when ParseDuration FAILS (err != nil), with d = 0.
StartPosition(start) ==
    LET kclConfig == NewKinesisClientLibConfig
        t == ParseTime(start)
        d == ParseDuration(start)
    IN  IF start.kind = "empty" \/ start.kind = "LATEST"
        THEN WithInitialPositionInStream(kclConfig, "LATEST")
        ELSE IF start.kind = "TRIM_HORIZON"
        THEN WithInitialPositionInStream(kclConfig, "TRIM_HORIZON")
        ELSE IF ~t.err
        THEN WithTimestampAtInitialPositionInStream(kclConfig, t.ts)
        ELSE IF d.err
        THEN WithTimestampAtInitialPositionInStream(kclConfig, Now - d.d)
        ELSE kclConfig

\* Lines 100-107: a route without path or stream ends RunE with an error.
RunEReject ==
    /\ cliErr = "nil"
    /\ ri <= Len(parsedRoutes)
    /\ parsedRoutes[ri].Path = "" \/ parsedRoutes[ri].Stream = ""
    /\ cliErr' = IF parsedRoutes[ri].Path = "" THEN "empty path" ELSE "empty stream"
    /\ UNCHANGED <<parsedRoutes, ri, cliRoutes>>
    /\ CliFrame

\* Lines 109-132: the route's KCL configuration and RouteOptions.
RunERoute ==
    /\ cliErr = "nil"
    /\ ri <= Len(parsedRoutes)
    /\ parsedRoutes[ri].Path # "" /\ parsedRoutes[ri].Stream # ""
    /\ cliRoutes' = Append(cliRoutes,
                           [Pattern |-> parsedRoutes[ri].Path,
                            KCLConfig |-> StartPosition(parsedRoutes[ri].Start)])
    /\ ri' = ri + 1
    /\ UNCHANGED <<parsedRoutes, cliErr>>
    /\ CliFrame

InitCli ==
    /\ parsedRoutes \in SeqsUpTo(RouteOptionsCLI, NumRoutes)
    /\ ri = 1
    /\ cliRoutes = <<>>
    /\ cliErr = "nil"
    /\ ChkInitial
    /\ MrInitial
    /\ CcInitial
    /\ IdxInitial
    /\ SvcInitial(FALSE)
    /\ RouteInitial(1, <<>>)
    /\ HandlerInitial

NextCli == RunEReject \/ RunERoute

SpecCli == InitCli /\ [][NextCli]_vars

\* ------------------------------------------------------------------------
\* SpecRoutes: a Service with several routes, writes to their Logs and
\* indexes, and requests on their patterns (service.go, NewService and
\* handleFunc; record_processor_test.go, TestServiceTwoRoutes)
\* ------------------------------------------------------------------------
MrFrame == UNCHANGED <<idxVars, svcVars, procVars, sseVars, chkVars, cliVars, ccVars>>

DefaultCapacity == 100000

Patterns == {"/foo", "/bar"}

\* The paths requested: the patterns and one that no route has.
Paths == Patterns \cup {"/other"}

\* ServiceOptions.Routes: up to NumRoutes routes of different patterns
\* (HandleFunc panics when a pattern is registered twice).
RouteOptions ==
    {o \in SeqsUpTo([Pattern : Patterns, Capacity : {-1, 0, 1}], NumRoutes) :
        \A i, j \in DOMAIN o : o[i].Pattern = o[j].Pattern => i = j}

NoService == [err |-> "nil", routes |-> <<>>, handler |-> <<>>, mls |-> <<>>, t2os |-> <<>>]

\* The loop with one Log made before it and shared by the routes.
RECURSIVE NewServiceLoop_OneLog(_, _, _)
NewServiceLoop_OneLog(options, i, s) ==
    IF i > Len(options) THEN s
    ELSE LET routeOptions == options[i]
             capacity == IF routeOptions.Capacity = 0 THEN DefaultCapacity
                         ELSE routeOptions.Capacity
             t2o_ == Len(s.t2os) + 1
             r == [ml |-> 1, t2o |-> t2o_]
         IN  IF routeOptions.Capacity < 0
             THEN [NoService EXCEPT !.err = "capacity must be non-negative"]
             ELSE NewServiceLoop_OneLog(options, i + 1,
                     [err |-> "nil",
                      routes |-> MapSet(s.routes, routeOptions.Pattern, r),
                      handler |-> MapSet(s.handler, routeOptions.Pattern, r),
                      mls |-> <<<<>>>>,
                      t2os |-> Append(s.t2os, NewTimestamp2Offset(capacity))])

\* Lines 92-128: each route gets a Log and an index of its own, made in the
\* loop's body; its handler and its entry of s.routes get that pair.
RECURSIVE NewServiceLoop(_, _, _)
NewServiceLoop(options, i, s) ==
    IF i > Len(options) THEN s
    ELSE LET routeOptions == options[i]
             capacity == IF routeOptions.Capacity = 0 THEN DefaultCapacity
                         ELSE routeOptions.Capacity
             ml_ == Len(s.mls) + 1
             t2o_ == Len(s.t2os) + 1
             r == [ml |-> ml_, t2o |-> t2o_]
         IN  IF routeOptions.Capacity < 0
             THEN [NoService EXCEPT !.err = "capacity must be non-negative"]
             ELSE NewServiceLoop(options, i + 1,
                     [err |-> "nil",
                      routes |-> MapSet(s.routes, routeOptions.Pattern, r),
                      handler |-> MapSet(s.handler, routeOptions.Pattern, r),
                      mls |-> Append(s.mls, <<>>),
                      t2os |-> Append(s.t2os, NewTimestamp2Offset(capacity))])

NewService(options) == NewServiceLoop(options, 1, NoService)

MrClients == {"c1"}

NoConn == [pc |-> "idle", path |-> "", ml |-> 0, t2o |-> 0, status |-> 0, off |-> 0,
           frames |-> <<>>, sent |-> <<>>]

\* The values of "since" of the requests: none, the time of the first record.
MrSince == {[kind |-> "empty", v |-> 0], [kind |-> "rfc3339", v |-> 0]}

\* The number of records in the first n of the Logs.
RECURSIVE RecordsIn(_, _)
RecordsIn(logs, n) == IF n = 0 THEN 0 ELSE Len(logs[n]) + RecordsIn(logs, n - 1)

\* s.routes[pattern].ml.Write (test lines 244, 249; ProcessRecords line 107).
MrWrite(pattern, d) ==
    /\ pattern \in DOMAIN routes
    /\ LET id == routes[pattern].ml
           w == LogWrite(mls[id], Marshal(d.detail), d.time)
       IN  /\ RecordsIn(mls, Len(mls)) < MaxRecords
           /\ mls' = [mls EXCEPT ![id] = w.log]
           /\ writes' = [writes EXCEPT ![pattern] =
                           IF w.err THEN @ ELSE Append(@, Marshal(d.detail))]
    /\ mrOp' = [op |-> "Write", pattern |-> pattern]
    /\ UNCHANGED <<routes, handler, t2os, conns>>
    /\ MrFrame

\* s.routes[pattern].t2o.Add, for the next offset of the route's Log (test
\* lines 242, 247; ProcessRecords line 101).
MrAdd(pattern, timestamp) ==
    /\ pattern \in DOMAIN routes
    /\ LET id == routes[pattern].t2o
           offset == LogLatest(mls[routes[pattern].ml]) + 1
       IN  /\ offset < MaxRecords
           /\ t2os' = [t2os EXCEPT ![id] = Add(@, offset, timestamp).m]
    /\ mrOp' = [op |-> "Add", pattern |-> pattern]
    /\ UNCHANGED <<routes, handler, mls, conns, writes>>
    /\ MrFrame

\* A GET: the ServeMux finds the handler of the path, 404 without one; the
\* handler calls handleFunc with its Log and index (lines 118-120), which
\* writes ":ok" and resolves the offset to stream from (lines 217-266).
MrRequest(c, path, since) ==
    /\ conns[c].pc = "idle"
    /\ conns' = [conns EXCEPT ![c] =
          IF path \notin DOMAIN handler
          THEN [NoConn EXCEPT !.pc = "done", !.path = path, !.status = 404]
          ELSE LET h == handler[path]
                   timestamp == ParseSince(since).timestamp
                   latest == LatestOrZero(LogLatest(mls[h.ml]))
                   n == NearestOffset(t2os[h.t2o], timestamp)
               IN  [NoConn EXCEPT !.pc = "stream", !.path = path, !.status = 200,
                                  !.ml = h.ml, !.t2o = h.t2o,
                                  !.frames = <<":ok">>,
                                  !.off = IF timestamp = NoTimestamp THEN latest
                                          ELSE ResolvedOffset(latest, n.ok, n.offset)]]
    /\ UNCHANGED <<routes, handler, mls, t2os, mrOp, writes>>
    /\ MrFrame

\* Lines 268-277: the next record of the handler's Log, written as a frame.
MrNext(c) ==
    /\ conns[c].pc = "stream"
    /\ LET log == mls[conns[c].ml]
       IN  /\ conns[c].off < Len(log)
           /\ conns' = [conns EXCEPT ![c] =
                 IF conns[c].off < LogEarliest(log, t2os[conns[c].t2o].capacity)
                 THEN [@ EXCEPT !.pc = "done"]
                 ELSE [@ EXCEPT !.frames = Append(@, log[conns[c].off + 1].data),
                                !.sent = Append(@, conns[c].off),
                                !.off = @ + 1]]
    /\ UNCHANGED <<routes, handler, mls, t2os, mrOp, writes>>
    /\ MrFrame

InitRoutes ==
    /\ CcInitial
    /\ \E options \in RouteOptions :
          LET s == NewService(options)
          IN  /\ s.err = "nil"
              /\ routes = s.routes
              /\ handler = s.handler
              /\ mls = s.mls
              /\ t2os = s.t2os
              /\ writes = [pattern \in DOMAIN s.routes |-> <<>>]
    /\ conns = [c \in MrClients |-> NoConn]
    /\ mrOp = NoMrOp
    /\ ChkInitial
    /\ CliInitial
    /\ IdxInitial
    /\ SvcInitial(TRUE)
    /\ RouteInitial(1, <<>>)
    /\ HandlerInitial

NextRoutes ==
    \/ \E pattern \in Patterns, d \in StreamData : MrWrite(pattern, d)
    \/ \E pattern \in Patterns, d \in StreamData : MrAdd(pattern, d.time)
    \/ \E c \in MrClients, path \in Paths, since \in MrSince : MrRequest(c, path, since)
    \/ \E c \in MrClients : MrNext(c)

SpecRoutes == InitRoutes /\ [][NextRoutes]_vars

\* ------------------------------------------------------------------------
\* SpecIdx: one Timestamp2Offset, any sequence of Add and NearestOffset calls
\* ------------------------------------------------------------------------
InitIdx ==
    /\ \E capacity \in 1 .. MaxCap : idx = NewTimestamp2Offset(capacity)
    /\ idxOp = NoOp
    /\ idxHist = <<>>
    /\ SvcInitial(FALSE)
    /\ RouteInitial(1, <<>>)
    /\ HandlerInitial
    /\ ChkInitial
    /\ CliInitial
    /\ MrInitial
    /\ CcInitial

IdxAdd(offset, timestamp) ==
    LET r == Add(idx, offset, timestamp)
    IN  /\ idx' = r.m
        /\ idxOp' = [op |-> "Add", offset |-> offset, timestamp |-> timestamp,
                     err |-> r.err, ok |-> r.err = "nil"]
        /\ idxHist' = IF r.err = "nil" THEN Append(idxHist, offset) ELSE idxHist
        /\ UNCHANGED <<svcVars, procVars, sseVars, chkVars, cliVars, mrVars, ccVars>>

IdxNearestOffset(timestamp) ==
    LET r == NearestOffset(idx, timestamp)
    IN  /\ idxOp' = [op |-> "NearestOffset", offset |-> r.offset, timestamp |-> timestamp,
                     err |-> "nil", ok |-> r.ok]
        /\ UNCHANGED <<idx, idxHist>>
        /\ UNCHANGED <<svcVars, procVars, sseVars, chkVars, cliVars, mrVars, ccVars>>

NextIdx ==
    \/ \E offset \in -1 .. MaxOffset, timestamp \in Timestamps : IdxAdd(offset, timestamp)
    \/ \E timestamp \in Queries : IdxNearestOffset(timestamp)

SpecIdx == InitIdx /\ [][NextIdx]_vars

\* ========================================================================
\* Properties of Timestamp2Offset (checked under SpecIdx)
\* ========================================================================
Min(a, b) == IF a < b THEN a ELSE b

\* The offsets the history says must be retained: the last min(k, C) accepted.
Retained ==
    LET k == Len(idxHist)
    IN  IF k = 0 THEN {}
        ELSE (idxHist[k] - Min(k, idx.capacity) + 1) .. idxHist[k]

\* C3 (contiguity): the first accepted Add may carry any offset >= 0; a
\* later Add is accepted iff its offset is the last accepted offset + 1; a
\* rejected Add (negative, repeat, smaller, gap) leaves the index unchanged.
C3_AddContiguity ==
    [][idxOp'.op = "Add" =>
         LET offset == idxOp'.offset
             inOrder == /\ offset >= 0
                        /\ \/ idxHist = <<>>
                           \/ offset = idxHist[Len(idxHist)] + 1
         IN  /\ (idxOp'.err = "nil") <=> inOrder
             /\ idxOp'.err = "nil" =>
                   /\ idx'.lastOffset = offset
                   /\ offset \in DOMAIN idx'.offset2Timestamp
             /\ idxOp'.err # "nil" => idx' = idx]_vars

\* C3 witness: after two accepted Adds starting above 0, a gap was rejected.
C3_Witness ==
    /\ idxOp.op = "Add"
    /\ idxOp.err = "outoforder"
    /\ idxOp.offset > idx.lastOffset + 1
    /\ Len(idxHist) >= 2
    /\ idxHist[1] > 0

\* C4 (bounded retention): after k accepted Adds ending at L the retained
\* entries are exactly the offsets L-min(k,C)+1 .. L, in both structures, and
\* NearestOffset only ever returns one of them (so after 0..N-1 with N > C
\* nothing below N-C).
C4_BoundedRetention ==
    /\ DOMAIN idx.offset2Timestamp = Retained
    /\ {idx.timestamp2Offsets[j].offset : j \in 1 .. Len(idx.timestamp2Offsets)} = Retained
    /\ Len(idx.timestamp2Offsets) = Cardinality(Retained)
    /\ Cardinality(Retained) <= idx.capacity
    /\ (idxOp.op = "NearestOffset" /\ idxOp.ok) => idxOp.offset \in Retained
    /\ (idxOp.op = "NearestOffset" /\ idxOp.ok /\ idxHist # <<>> /\ idxHist[1] = 0)
          => idxOp.offset >= Len(idxHist) - idx.capacity

\* C4 witness: offsets 0..N-1 inserted with N > C + 1, then a lookup answered.
C4_Witness ==
    /\ idxHist # <<>>
    /\ idxHist[1] = 0
    /\ Len(idxHist) > idx.capacity + 1
    /\ idxOp.op = "NearestOffset"
    /\ idxOp.ok
    /\ idxOp.offset = Len(idxHist) - idx.capacity

\* What the nearest-offset policy asks for, read off the offset -> timestamp map.
AtOrAfter(q) == {o \in DOMAIN idx.offset2Timestamp : idx.offset2Timestamp[o] >= q}

Before(q) == {o \in DOMAIN idx.offset2Timestamp : idx.offset2Timestamp[o] < q}

\* C5 (nearest-offset policy): the entry with the earliest timestamp >= q,
\* smallest offset among equals; else the entry with the latest timestamp < q;
\* not found (-1) iff the index is empty.
C5_NearestOffsetPolicy ==
    idxOp.op = "NearestOffset" =>
        LET f == idx.offset2Timestamp
            q == idxOp.timestamp
            r == idxOp.offset
        IN  /\ idxOp.ok <=> DOMAIN f # {}
            /\ ~idxOp.ok => r = -1
            /\ AtOrAfter(q) # {} =>
                  /\ r \in AtOrAfter(q)
                  /\ \A o \in AtOrAfter(q) :
                        \/ f[r] < f[o]
                        \/ f[r] = f[o] /\ r <= o
            /\ (AtOrAfter(q) = {} /\ Before(q) # {}) =>
                  /\ r \in Before(q)
                  /\ \A o \in Before(q) : f[o] <= f[r]
            \* capacity 2, entries 1 -> 3 and 2 -> 1 (500ms and 250ms of the test)
            /\ (idx.capacity = 2 /\ f = (1 :> 3 @@ 2 :> 1)) =>
                  r = IF q <= 1 THEN 2 ELSE 1

\* C5 witness: timestamps decreasing in offset order, query between the two.
C5_Witness ==
    /\ idx.capacity = 2
    /\ idx.offset2Timestamp = (1 :> 3 @@ 2 :> 1)
    /\ idxOp.op = "NearestOffset"
    /\ idxOp.timestamp = 2
    /\ idxOp.offset = 1

\* C6 (as documented on NearestOffset): whenever some retained entry is at or
\* after the query, the answer is the smallest offset among all such entries.
C6_SmallestOffsetSince ==
    (idxOp.op = "NearestOffset" /\ AtOrAfter(idxOp.timestamp) # {}) =>
        /\ idxOp.ok
        /\ idxOp.offset \in AtOrAfter(idxOp.timestamp)
        /\ \A o \in AtOrAfter(idxOp.timestamp) : idxOp.offset <= o

\* ========================================================================
\* Properties of Service.Start and Service.Stop (checked under SpecSvc)
\* ========================================================================

\* C1 (startup is all-or-nothing): once Start has returned the error of a
\* failed worker start or of a failed bind, no worker is running, every
\* worker it had started has been shut down, the workers it had not reached
\* were never started, the listener is not published and nothing is served.
C1_StartAllOrNothing ==
    (startPc = "returned" /\ startRet \in {"worker", "bind"}) =>
        /\ \A r \in Routes : wrkr[r] # "running"
        /\ \A i \in 1 .. Len(started) : wrkr[started[i]] = "stopped"
        /\ \A r \in Routes \ attempted : wrkr[r] \in {"new", "nil"}
        /\ l = "nil"
        /\ srv # "serving"

\* C1 witness: route B failed to start after route A had been started.
C1_Witness ==
    /\ startPc = "returned"
    /\ startRet = "worker"
    /\ Len(started) >= 1
    /\ wrkr[started[1]] = "stopped"
    /\ stopPc = "idle"

\* C2 (Stop waits for the workers): once Stop has returned, the shutdown of
\* every route's worker has completed, whatever the HTTP shutdown did.
C2_StopAfterWorkers ==
    stopPc = "returned" =>
        /\ \A r \in Routes : wrkr[r] # "nil" => shut[r] = "done"
        /\ wait = 0

\* C2 witness: the HTTP shutdown returned an error while a worker shutdown
\* was still pending, and Stop has returned with that worker stopped.
C2_Witness ==
    /\ stopPc = "returned"
    /\ stopRet = "error"
    /\ lateHttp
    /\ \E r \in Routes : wrkr[r] = "stopped" /\ shut[r] = "done"

\* ========================================================================
\* Properties of ProcessRecords (checked under SpecProc)
\* ========================================================================

\* A record that parses as a JSON object with a string RFC3339 "time" field
\* and a "detail" field.
WellFormed(r) == r.data.json /\ r.data.timeKind = "rfc3339" /\ r.data.hasDetail

\* Its re-encoded "detail" is within the size limit of the Log.
Fits(r) == Len(r.data.detail) <= MaxRecordSize

Writable(r) == WellFormed(r) /\ Fits(r)

IsSorted(q) == \A i, j \in 1 .. Len(q) : i < j => q[i] < q[j]

\* The Log holds, in arrival order, one entry per record of `expected`, each
\* the sorted re-encoding of that record's "detail"; index entries exist only
\* for Log entries and carry their record's timestamp; no record stops the
\* loop: a call that has returned went through all its records.
LogIs(expected) ==
    /\ Len(ml) = Len(expected)
    /\ \A i \in 1 .. Len(ml) :
          i <= Len(expected) =>
             /\ Range(ml[i].data) = Range(expected[i].data.detail)
             /\ Len(ml[i].data) = Len(expected[i].data.detail)
             /\ IsSorted(ml[i].data)
             /\ ml[i].time = expected[i].data.time
    /\ \A o \in DOMAIN t2o.offset2Timestamp :
          /\ o \in 0 .. (Len(ml) - 1)
          /\ t2o.offset2Timestamp[o] = ml[o + 1].time
    /\ (\A p \in Procs : procPc[p] \notin {"add", "insert"}) =>
          DOMAIN t2o.offset2Timestamp =
             (Len(ml) - Min(Len(ml), t2o.capacity)) .. (Len(ml) - 1)
    /\ ~panicked
    /\ \A id \in finished :
          \A i \in 1 .. Len(begun[id].records) :
             \E j \in 1 .. Len(applied) : applied[j] = begun[id].records[i]

\* C7 as stated (ingestion skip policy): exactly one Log entry per well-formed
\* record, in arrival order; malformed records leave no entry and stop nothing.
C7_OneEntryPerWellFormed == LogIs(SelectSeq(applied, WellFormed))

\* C7 as amended: exactly one Log entry per well-formed record whose Log
\* write succeeds (a record the Log refuses is skipped like a malformed one).
C7_OneEntryPerWritten == LogIs(SelectSeq(applied, Writable))

\* C7 witness: two calls have returned; the first had a malformed record, the
\* second a well-formed one, which is in the Log and in the index.
C7_Witness ==
    /\ finished = {1, 2}
    /\ Len(applied) = 2
    /\ ~WellFormed(applied[1])
    /\ Writable(applied[2])
    /\ Len(ml) = 1
    /\ DOMAIN t2o.offset2Timestamp = {0}

\* The Checkpoint calls made for the input begun[id].
CheckpointsOf(id) == {i \in 1 .. Len(checkpoints) : checkpoints[i].input = id}

\* For an input, exactly one checkpoint, with the position of its last
\* record, made after all its records were gone through.
OneCheckpoint(id) ==
    /\ Cardinality(CheckpointsOf(id)) = 1
    /\ \A i \in CheckpointsOf(id) :
          /\ checkpoints[i].position =
                begun[id].records[Len(begun[id].records)].seq
          /\ checkpoints[i].done = Len(begun[id].records)

\* C8 as stated (batch-granularity checkpointing): every non-empty input whose
\* call has returned has exactly one checkpoint, of its last record's
\* position; an empty input has none.
C8_OneCheckpointPerBatch ==
    \A id \in 1 .. Len(begun) :
       IF id \in finished /\ Len(begun[id].records) > 0
       THEN OneCheckpoint(id)
       ELSE id \in finished => CheckpointsOf(id) = {}

\* C8 as amended: the same for the inputs that carry a checkpointer; for an
\* input without one (as in the tests) no checkpoint is made. A checkpoint is
\* never made before the loop is over.
C8_OneCheckpointPerBatchWithCheckpointer ==
    /\ \A id \in 1 .. Len(begun) :
          IF id \in finished /\ Len(begun[id].records) > 0
                /\ checkpointer[begun[id].proc]
          THEN OneCheckpoint(id)
          ELSE id \in finished => CheckpointsOf(id) = {}
    /\ \A i \in 1 .. Len(checkpoints) :
          /\ checkpoints[i].done = Len(begun[checkpoints[i].input].records)
          /\ Cardinality(CheckpointsOf(checkpoints[i].input)) = 1

\* C8 witness: an input of two records, the first written and the last
\* skipped, has its one checkpoint, at the skipped record's position.
C8_Witness ==
    /\ finished = {1}
    /\ Len(begun[1].records) = 2
    /\ Writable(begun[1].records[1])
    /\ ~WellFormed(begun[1].records[2])
    /\ Len(ml) = 1
    /\ Len(checkpoints) = 1
    /\ checkpoints[1].position = 2

\* ========================================================================
\* Properties of the streaming handler (checked under SpecSse, FairSpecSse)
\* ========================================================================
NonDecreasing == \A i, j \in 1 .. Len(ml) : i < j => ml[i].time <= ml[j].time

\* No entry of the route has been evicted from the index (the Log purges
\* later than the index evicts).
NoneEvicted == Len(ml) <= t2o.capacity

\* The request of c had a "since" at or before the first entry's time.
SinceAtOrBeforeFirst(c) ==
    /\ hdl[c].frames # <<>>
    /\ hdl[c].timestamp # NoTimestamp
    /\ Len(ml) > 0 => hdl[c].timestamp <= ml[1].time

\* c has been sent, after ":ok", the entries at offsets 0 .. n - 1 in this
\* order and once each, and its stream goes on with offset n.
SentAllSoFar(c) ==
    /\ hdl[c].sent = [i \in 1 .. Len(hdl[c].sent) |-> i - 1]
    /\ hdl[c].frames = <<":ok">> \o [i \in 1 .. Len(hdl[c].sent) |-> ml[i].data]
    /\ hdl[c].pc = "stream" => hdl[c].off = Len(hdl[c].sent)

C9_Resumes ==
    \A c \in AllClients :
       (SinceAtOrBeforeFirst(c) /\ NonDecreasing /\ NoneEvicted) => SentAllSoFar(c)

\* A stream that is behind the Log catches up with it, unless the client goes.
C9_CatchesUp ==
    \A c \in AllClients :
       (hdl[c].pc = "stream") ~> (hdl[c].pc = "done" \/ hdl[c].off >= Len(ml))

\* C9 (streaming resumption): with non-decreasing timestamps and no entry
\* evicted, a client whose since is at or before the first entry's timestamp
\* is sent every entry of the route once and in offset order, wherever its
\* request falls between the Log writes and the index Adds.
C9_StreamingResumption == []C9_Resumes /\ C9_CatchesUp

\* C9 witness: the request arrived when only the first of two entries was in
\* the Log; both entries have been sent, in order.
C9_Witness ==
    /\ hdl["c1"].timestamp = 0
    /\ hdl["c1"].connLatest = 0
    /\ hdl["c1"].sent = <<0, 1>>
    /\ Len(ml) = 2
    /\ ml[1].time = 0
    /\ ml[2].time = 1
    /\ t2o.capacity = MaxCap
    /\ SinceAtOrBeforeFirst("c1") /\ NonDecreasing /\ NoneEvicted

\* C10 as stated: a client without since is sent only entries written after
\* its request arrived, none that the Log held already.
C10_OnlyEntriesAfterConnecting ==
    \A c \in AllClients :
       hdl[c].timestamp = NoTimestamp =>
          \A i \in 1 .. Len(hdl[c].sent) : hdl[c].sent[i] > hdl[c].connLatest

\* The request of c could be streamed: a flushing writer, and a "since" that
\* is absent, an RFC3339 time or a duration.
Streamable(c) ==
    /\ hdl[c].req.canFlush
    /\ hdl[c].req.since.kind \in {"empty", "rfc3339", "duration"}

\* C11 (response ordering): without a flushing writer 500 and no frame,
\* whatever since is; else with an unparsable since 400 and no frame; else
\* ":ok" is the first frame and is flushed before the offset is resolved, and
\* whenever the handler resolves the offset or waits for the next entry all
\* frames written so far are flushed.
C11_ResponseOrdering ==
    \A c \in AllClients :
       hdl[c].pc # "idle" =>
          /\ ~hdl[c].req.canFlush => hdl[c].status = 500 /\ hdl[c].frames = <<>>
          /\ (hdl[c].req.canFlush /\ ~Streamable(c)) =>
                hdl[c].status = 400 /\ hdl[c].frames = <<>>
          /\ Streamable(c) =>
                /\ hdl[c].status = 200
                /\ hdl[c].frames # <<>> => hdl[c].frames[1] = ":ok"
                /\ hdl[c].frames # <<>> =>
                      Tail(hdl[c].frames) =
                         [i \in 1 .. Len(hdl[c].sent) |-> ml[hdl[c].sent[i] + 1].data]
                /\ hdl[c].pc \in {"range", "forward", "backward", "stream"} =>
                      /\ hdl[c].frames # <<>>
                      /\ hdl[c].flushed = Len(hdl[c].frames)
          /\ hdl[c].status \in {400, 500} => hdl[c].pc = "done"

\* C11 witness: a streaming client that has been sent ":ok" and a data frame
\* waits for the next entry with both frames flushed.
C11_Witness ==
    /\ hdl["c1"].pc = "stream"
    /\ Len(hdl["c1"].frames) = 2
    /\ hdl["c1"].flushed = 2
    /\ hdl["c1"].off = Len(ml)

\* ========================================================================
\* Properties of Service.Addr (checked under SpecSvc)
\* ========================================================================
\* Start has gone through its step of publishing the listener.
Published == startPc \in {"broadcast", "serve", "serving", "returned"} /\ startRet \notin {"worker", "bind"}

\* C12: an Addr call that has returned did so after Start published the
\* listener it bound, and returned that listener's address.
C12_AddrAfterPublish ==
    \A a \in AllCallers :
       addr[a].pc = "returned" =>
          /\ Published
          /\ l # "nil"
          /\ l = lcl
          /\ addr[a].ret = lcl

\* C12 witness: a caller that was in cond.Wait before the listener was
\* published has returned its address.
C12_Witness ==
    /\ addr["a1"].pc = "returned"
    /\ addr["a1"].waited
    /\ addr["a1"].ret = "addr2"
    /\ l = "addr2"

\* ========================================================================
\* Properties of a served and stopped Service (checked under FairSpecServe)
\* ========================================================================
\* C13 as stated: once Stop has called s.cancel(), a streaming loop that
\* waits for the next entry of the Log comes to its end.
C13_CancelEndsStreams ==
    \A c \in AllClients :
       (cancelled /\ hdl[c].pc = "stream") ~> (hdl[c].pc = "done")

\* ========================================================================
\* Properties of ProcessRecords beside direct calls (checked under SpecFault)
\* ========================================================================
\* The Add that p is about to make returns an error.
AddFails(p) ==
    \/ AddCheck(t2o, off[p]).err # "nil"
    \/ AddEvict(AddCheck(t2o, off[p]).m, off[p]).err # "nil"

\* At a panic the process is at a record whose Add returned an error; that
\* record is the last the loop went through and is in the Log, its
\* batch has not returned and has no checkpoint. Without a panic, the last
\* offset a processor wrote has been accepted by the index.
PanicAtFailedAdd ==
    /\ panicked =>
          \E p \in Procs :
             /\ procPc[p] = "add"
             /\ AddFails(p)
             /\ applied[Len(applied)] = Current(p)
             /\ off[p] <= LogLatest(ml)
             /\ batchId[p] \notin finished
             /\ CheckpointsOf(batchId[p]) = {}
    /\ ~panicked =>
          \A p \in Procs :
             procPc[p] \notin {"add", "insert"} => off[p] <= t2o.lastOffset

\* C14 (an index failure is fatal): an Add that returns an error inside
\* ProcessRecords panics at that record, leaving the index as it was; from
\* then on nothing is written to the Log, added to the index or checkpointed.
C14_IndexFailureIsFatal ==
    /\ []PanicAtFailedAdd
    /\ [][(~panicked /\ panicked') => t2o' = t2o]_vars
    /\ [][panicked => UNCHANGED <<ml, t2o, checkpoints, applied, finished, panicked>>]_vars

\* C14 witness: the index was handed offset 0 directly; the first record of
\* a batch of two was then written at offset 0 and its Add failed.
C14_Witness ==
    /\ panicked
    /\ Len(Records("p1")) = 2
    /\ bi["p1"] = 1
    /\ Len(applied) = 1
    /\ Len(ml) = 1
    /\ checkpoints = <<>>

\* ========================================================================
\* Properties of dumpRecordProcessor.Shutdown (checked under SpecShutdown)
\* ========================================================================
\* The terminal checkpoints committed so far.
TerminalCheckpoints ==
    {i \in 1 .. Len(checkpoints) : checkpoints[i].position = NilSequenceNumber}

\* C15: a processor that has been shut down has committed one terminal
\* (nil-position) checkpoint, as its last checkpoint, if the reason was
\* TERMINATE, and none for any other reason; none is committed without a
\* shutdown.
C15_TerminalCheckpointIffTerminate ==
    /\ Cardinality(TerminalCheckpoints) =
          Cardinality({p \in Procs : reason[p] = "TERMINATE"})
    /\ \A i \in TerminalCheckpoints : i = Len(checkpoints)
    /\ \A p \in Procs : reason[p] # "none" <=> procPc[p] = "shutdown"

\* C15 witness: after a batch and its checkpoint, a TERMINATE shutdown has
\* committed the terminal checkpoint.
C15_Witness ==
    /\ reason["p1"] = "TERMINATE"
    /\ Len(checkpoints) = 2
    /\ checkpoints[2].position = NilSequenceNumber
    /\ checkpoints[1].position = 1

\* ========================================================================
\* Properties of inMemoryCheckpointer (checked under SpecChk)
\* ========================================================================
\* The store holds a record for exactly the shards saved or claimed and not
\* removed since, with the position last saved.
StoreIsSaved ==
    \A sh \in AllShards :
       /\ sh \in DOMAIN items <=> saved[sh] # "none"
       /\ sh \in DOMAIN items => items[sh].sequenceNumber = saved[sh]

\* A FetchCheckpoint step: not found exactly without a record, leaving the
\* shard status as it was; else the shard status gets the saved position.
FetchStep ==
    chkOp'.op = "FetchCheckpoint" =>
       LET sh == chkOp'.shard
       IN  /\ chkOp'.err = ErrSequenceIDNotFound <=> saved[sh] = "none"
           /\ chkOp'.err \in {"nil", ErrSequenceIDNotFound}
           /\ chkOp'.err = ErrSequenceIDNotFound => shardStatus' = shardStatus
           /\ chkOp'.err = "nil" =>
                 /\ shardStatus'[sh].Checkpoint = saved[sh]
                 /\ \A o \in AllShards \ {sh} : shardStatus'[o] = shardStatus[o]
           /\ items' = items

\* C16 (checkpoint store lookup): after any sequence of calls, FetchCheckpoint
\* fails with "not found" exactly when the shard has no record (never saved
\* or claimed, or removed since), and then leaves the shard status
\* unchanged; otherwise it yields the position last saved for the shard.
C16_FetchFindsLastSaved == []StoreIsSaved /\ [][FetchStep]_vars

\* C16 witness: a shard the worker has leased and moved, but not saved, is
\* fetched: not found, and its status is as it was.
C16_Witness ==
    /\ chkOp.op = "FetchCheckpoint"
    /\ chkOp.shard = "sh1"
    /\ chkOp.err = ErrSequenceIDNotFound
    /\ shardStatus["sh1"].Checkpoint = "49590"
    /\ shardStatus["sh1"].AssignedTo = "w2"
    /\ "sh2" \in DOMAIN items

\* The shards of a ListActiveWorkers call that are not at the end of the shard.
ActiveOf(order) == {sh \in Range(order) : shardStatus[sh].Checkpoint # ShardEnd}

\* C17: ListActiveWorkers fails with "not assigned" exactly when a shard not
\* at the terminal position has no owner; else it groups exactly those
\* shards by owner, each once, and holds no shard at the terminal position.
C17_ListActiveWorkers ==
    chkOp.op = "ListActiveWorkers" =>
       LET active == ActiveOf(chkOp.shard)
           workers == chkOp.result
       IN  /\ chkOp.err = ErrShardNotAssigned <=>
                 \E sh \in active : shardStatus[sh].AssignedTo = ""
           /\ chkOp.err \in {"nil", ErrShardNotAssigned}
           /\ chkOp.err = "nil" =>
                 /\ DOMAIN workers = {shardStatus[sh].AssignedTo : sh \in active}
                 /\ \A w \in DOMAIN workers :
                       /\ Range(workers[w]) =
                             {sh \in active : shardStatus[sh].AssignedTo = w}
                       /\ Len(workers[w]) = Cardinality(Range(workers[w]))

\* C17 witness: of two shards, the one at the terminal position has no
\* owner, the other is owned: the call succeeds with the owned shard only.
C17_Witness ==
    /\ chkOp.op = "ListActiveWorkers"
    /\ Len(chkOp.shard) = 2
    /\ shardStatus["sh1"].Checkpoint = ShardEnd
    /\ shardStatus["sh1"].AssignedTo = ""
    /\ shardStatus["sh2"].Checkpoint = "49590"
    /\ chkOp.err = "nil"
    /\ DOMAIN chkOp.result = {"w2"}
    /\ chkOp.result["w2"] = <<"sh2">>

\* A ClaimShard step succeeds and leaves a record, with the position of the
\* record there was, if any.
ClaimStep ==
    chkOp'.op = "ClaimShard" =>
       LET sh == chkOp'.shard
       IN  /\ chkOp'.err = "nil"
           /\ sh \in DOMAIN items'
           /\ sh \in DOMAIN items =>
                 items'[sh].sequenceNumber = items[sh].sequenceNumber
           /\ \A o \in AllShards \ {sh} :
                 /\ o \in DOMAIN items' <=> o \in DOMAIN items
                 /\ o \in DOMAIN items => items'[o] = items[o]

\* C18: ClaimShard succeeds with or without a record for the shard;
\* afterwards there is one, and a record that was there keeps its position.
C18_ClaimKeepsPosition == [][ClaimStep]_vars

\* C18 witness: a shard saved at a position, then moved on in memory only,
\* has been claimed: its record is at the saved position.
C18_Witness ==
    /\ chkOp.op = "ClaimShard"
    /\ chkOp.shard = "sh1"
    /\ saved["sh1"] = "49590"
    /\ items["sh1"].sequenceNumber = "49590"
    /\ "sh2" \notin DOMAIN items

\* The position the route's Start stands for.
PositionOf(start) ==
    IF start.kind \in {"empty", "LATEST"}
    THEN [InitialPositionInStream |-> "LATEST", Timestamp |-> NoTimestamp]
    ELSE IF start.kind = "TRIM_HORIZON"
    THEN [InitialPositionInStream |-> "TRIM_HORIZON", Timestamp |-> NoTimestamp]
    ELSE IF start.kind = "rfc3339"
    THEN [InitialPositionInStream |-> "AT_TIMESTAMP", Timestamp |-> start.v]
    ELSE [InitialPositionInStream |-> "AT_TIMESTAMP", Timestamp |-> Now - start.v]

\* C20: every route made from a Start that is a duration starts at the
\* timestamp "now minus the duration", one from a timestamp at that
\* timestamp, one from "TRIM_HORIZON" at the earliest position, one from
\* nothing or "LATEST" at the latest.
C20_StartPosition ==
    \A j \in 1 .. Len(cliRoutes) :
       parsedRoutes[j].Start.kind # "bogus" =>
          cliRoutes[j].KCLConfig = PositionOf(parsedRoutes[j].Start)

\* C20, the values of Start other than durations.
C20_StartPositionButDurations ==
    \A j \in 1 .. Len(cliRoutes) :
       parsedRoutes[j].Start.kind \notin {"bogus", "duration"} =>
          cliRoutes[j].KCLConfig = PositionOf(parsedRoutes[j].Start)

\* A route with a duration for Start has been configured.
C20_Witness ==
    /\ Len(cliRoutes) = 2
    /\ parsedRoutes[1].Start = [kind |-> "duration", v |-> 1]
    /\ parsedRoutes[2].Start = [kind |-> "rfc3339", v |-> 1]

\* The records of a route's Log and the route's index.
LogOf(pattern) == mls[routes[pattern].ml]
IndexOf(pattern) == t2os[routes[pattern].t2o]

\* A write to a route's Log or index leaves those of the other routes as
\* they were.
WriteStep ==
    mrOp'.op \in {"Write", "Add"} =>
       \A q \in DOMAIN routes \ {mrOp'.pattern} :
          /\ LogOf(q)' = LogOf(q)
          /\ IndexOf(q)' = IndexOf(q)

\* The data frames of a client of a route's path are entries written to
\* that route, those at the offsets streamed.
OwnEntriesOnly ==
    \A c \in MrClients :
       conns[c].path \in DOMAIN routes =>
          /\ Len(conns[c].frames) = Len(conns[c].sent) + 1
          /\ \A i \in 1 .. Len(conns[c].sent) :
                /\ conns[c].sent[i] < Len(writes[conns[c].path])
                /\ conns[c].frames[i + 1] = writes[conns[c].path][conns[c].sent[i] + 1]

\* C19 (route isolation): in a Service of several routes, a write to one
\* route's Log or index leaves every other route's Log and index
\* unchanged, and a client of one route's path receives only entries
\* written to that route.
C19_RouteIsolation == []OwnEntriesOnly /\ [][WriteStep]_vars

\* C19 witness: two routes hold different entries, the second written
\* last, and a client of the first one's path has received that route's.
C19_Witness ==
    /\ DOMAIN routes = Patterns
    /\ Len(writes["/foo"]) = 1
    /\ Len(writes["/bar"]) = 1
    /\ writes["/foo"] # writes["/bar"]
    /\ mrOp = [op |-> "Write", pattern |-> "/bar"]
    /\ conns["c1"].path = "/foo"
    /\ conns["c1"].frames = <<":ok", writes["/foo"][1]>>

\* ========================================================================
\* Properties of concurrent ProcessRecords calls (checked under SpecConc)
\* ========================================================================
\* The processors between Lock and Unlock.
InBatch == {p \in Procs : procPc[p] \in {"loop", "add", "insert"}}

\* At most one processor is inside its batch, and it holds the lock.
OneBatchAtATime ==
    /\ Cardinality(InBatch) <= 1
    /\ \A p \in InBatch : lock = p
    /\ InBatch = {} => lock = "free"

\* The Add a processor is about to make is for the offset after the last
\* the index accepted (any offset for an index without entries).
AddsInOrder ==
    \A p \in Procs :
       procPc[p] = "add" =>
          /\ off[p] = LogLatest(ml)
          /\ \/ t2o.offset2Timestamp = EmptyMap
             \/ off[p] = t2o.lastOffset + 1
          /\ ~AddFails(p)

\* A step that writes to the Log or the index is made with the lock held
\* before and after it, by the same processor.
WritesUnderLock ==
    (ml' # ml \/ t2o' # t2o) => (lock \in Procs /\ lock' = lock)

\* C21 (batch atomicity): with two processors of a route running
\* ProcessRecords concurrently, the lock is held over the whole batch, so
\* the writes and Adds of two batches do not interleave, every Add gets the
\* offset after the last accepted one, and no Add fails (no panic).
C21_BatchAtomicity ==
    /\ [](OneBatchAtATime /\ AddsInOrder /\ ~panicked)
    /\ [][WritesUnderLock]_vars

\* C21 witness: p2 is in its batch, about to Add, while p1 has its batch
\* begun and waits for the lock.
C21_Witness ==
    /\ procPc["p2"] = "add"
    /\ procPc["p1"] = "lock"
    /\ lock = "p2"
    /\ Len(Records("p1")) >= 1
    /\ ~panicked

\* ========================================================================
\* Properties of lookups beside ingestion (checked under SpecSse)
\* ========================================================================
\* A handler that has NearestOffset to make or to go on with can do so,
\* whoever holds the index's lock.
LookupNeverWaits ==
    \A c \in AllClients :
       /\ hdl[c].pc = "forward" => ENABLED HNearestForward(c)
       /\ hdl[c].pc = "backward" => ENABLED HNearestBackward(c)

\* C22 (lookups are not synchronized): the handler's NearestOffset does not
\* wait for the index's lock, so it runs while a batch holds the lock and
\* is part-way through its Adds, also between the eviction and the
\* insertion of one Add.
C22_LookupUnsynchronized == LookupNeverWaits

\* C22 witness: p1 holds the lock; its Add of offset 1 has evicted offset 0
\* from an index of capacity 1 and has not inserted yet; the handler is
\* inside NearestOffset, between its forward and its backward search.
C22_Witness ==
    /\ lock = "p1"
    /\ procPc["p1"] = "insert"
    /\ off["p1"] = 1
    /\ t2o.capacity = 1
    /\ t2o.offset2Timestamp = EmptyMap
    /\ hdl["c1"].pc = "backward"

\* ========================================================================
\* Log and index of a route written by ProcessRecords only (SpecProc)
\* ========================================================================
\* The index is that of the first n records of the Log: its last accepted
\* offset is n - 1, it holds the last `capacity` of those offsets, each
\* with the timestamp of its record, in both of its structures.
IndexHolds(n) ==
    LET held == (n - Min(n, t2o.capacity)) .. (n - 1)
    IN  /\ t2o.lastOffset = n - 1
        /\ DOMAIN t2o.offset2Timestamp = held
        /\ \A o \in held : t2o.offset2Timestamp[o] = ml[o + 1].time
        /\ Len(t2o.timestamp2Offsets) = Cardinality(held)
        /\ Range(t2o.timestamp2Offsets) =
              {[timestamp |-> ml[o + 1].time, offset |-> o] : o \in held}

\* C23 (Log/index synchrony): between the records of a batch and after it,
\* the index's last accepted offset is the Log's latest offset and the
\* index holds the offsets written with their records' timestamps; the
\* offset just written is the next the index is handed; a record whose
\* write failed has no entry and leaves later offsets contiguous.
C23_LogIndexSynchrony ==
    /\ (\A p \in Procs : procPc[p] \notin {"add", "insert"}) => IndexHolds(Len(ml))
    /\ \A p \in Procs :
          procPc[p] = "add" => off[p] = Len(ml) - 1 /\ IndexHolds(Len(ml) - 1)
    /\ Len(ml) = Len(SelectSeq(applied, Writable))
    /\ ~panicked

\* C23 witness: a batch of a record that the Log refused and a record that
\* it took has returned; the latter is at offset 0 of Log and index.
C23_Witness ==
    /\ finished = {1}
    /\ Len(applied) = 2
    /\ WellFormed(applied[1])
    /\ ~Fits(applied[1])
    /\ Writable(applied[2])
    /\ Len(ml) = 1
    /\ t2o.lastOffset = 0
    /\ 0 \in DOMAIN t2o.offset2Timestamp
    /\ t2o.offset2Timestamp[0] = applied[2].data.time

\* ========================================================================
\* The index's eviction (checked under SpecIdx)
\* ========================================================================
\* The offset to evict at the next Add that passes the order check.
OldestOffset == idx.lastOffset + 1 - idx.capacity

\* C24 (CorruptState is unreachable): after any Add calls, accepted or
\* rejected, an index holding `capacity` entries has the entry of the
\* offset to evict next in both of its structures, and no Add has returned
\* an "old offset to remove not found" error.
C24_NoCorruptState ==
    /\ Cardinality(DOMAIN idx.offset2Timestamp) = idx.capacity =>
          /\ OldestOffset \in DOMAIN idx.offset2Timestamp
          /\ \E j \in 1 .. Len(idx.timestamp2Offsets) :
                idx.timestamp2Offsets[j] =
                   [timestamp |-> idx.offset2Timestamp[OldestOffset],
                    offset |-> OldestOffset]
    /\ idxOp.err \notin {"oldnotfound", "oldtimestampnotfound"}

\* C24 witness: an index of capacity 2 or more, full of entries of equal
\* timestamps, has just accepted an Add that evicted one.
C24_Witness ==
    /\ idx.capacity >= 2
    /\ idxOp.op = "Add"
    /\ idxOp.ok
    /\ Len(idxHist) > idx.capacity
    /\ Cardinality(DOMAIN idx.offset2Timestamp) = idx.capacity
    /\ \A o \in DOMAIN idx.offset2Timestamp : idx.offset2Timestamp[o] = idxOp.timestamp

\* ========================================================================
\* The offset a handler starts to stream from (checked under SpecSse)
\* ========================================================================
\* The steps of c's handler that settle its offset: first the latest offset
\* of the Log, 0 for an empty Log, which stands without "since"; with
\* "since", the offset of the entry that NearestOffset's forward search
\* finds, else of the one its backward search finds, else (the index has no
\* entry) the offset stands.
StartStep(c) ==
    LET h == hdl[c]
        g == hdl'[c]
        forward == NearestForward(t2o, h.timestamp)
        backward == NearestBackward(t2o, h.timestamp)
    IN  /\ (h.pc = "range" /\ g.pc # "range") =>
              /\ g.off = IF Len(ml) = 0 THEN 0 ELSE Len(ml) - 1
              /\ g.pc = IF h.timestamp = NoTimestamp THEN "stream" ELSE "forward"
        /\ (h.pc = "forward" /\ g.pc # "forward") =>
              IF forward.eof
              THEN g.pc = "backward" /\ g.off = h.off
              ELSE /\ g.pc = "stream"
                   /\ g.off = forward.k.offset
                   /\ g.off = NearestOffset(t2o, h.timestamp).offset
        /\ (h.pc = "backward" /\ g.pc # "backward") =>
              /\ g.pc = "stream"
              /\ IF backward.eof
                 THEN g.off = h.off
                 ELSE g.off = backward.k.offset
        /\ (h.pc = "stream" /\ g.pc = "stream" /\ g.sent = h.sent) => g.off = h.off

\* A NearestOffset call finds no entry exactly in an index without entries.
NotFoundIffEmpty ==
    \A timestamp \in Queries :
       NearestOffset(t2o, timestamp).ok <=> t2o.timestamp2Offsets # <<>>

\* C25 (starting offset): the handler streams from the offset that
\* NearestOffset(since) returns when "since" was given and the lookup finds
\* an entry; else (no "since", or no entry in the index) from the Log's
\* latest offset, 0 for an empty Log.
C25_StartingOffset ==
    /\ []NotFoundIffEmpty
    /\ [][\A c \in AllClients : StartStep(c)]_vars

\* C25 witness: the request came with a "since" when the Log held two
\* entries; the handler is about to stream from offset 0, the entry found,
\* not from the latest offset 1.
C25_Witness ==
    /\ hdl["c1"].pc = "stream"
    /\ hdl["c1"].timestamp = 0
    /\ hdl["c1"].connLatest = 1
    /\ hdl["c1"].sent = <<>>
    /\ hdl["c1"].off = 0
    /\ Len(ml) = 2

\* ========================================================================
\* Publication of the listener (checked under FairSpecAddr)
\* ========================================================================
\* s.l is set once: a published listener is never cleared or replaced, and
\* only Start's publishing step sets it, to the listener Start bound.
PublishedOnce ==
    /\ l # "nil" => l' = l
    /\ l' # l => (startPc = "publish" /\ l' = lcl /\ lcl # "nil")

\* C26 (no lost wake-up): the listener goes from absent to present once and
\* stays; whenever Start has bound a listener, every Addr call made, before
\* or after the publication and the broadcast, returns in the end.
C26_NoLostWakeup ==
    /\ [][PublishedOnce]_vars
    /\ \A a \in AllCallers :
          (addr[a].pc \in {"lock", "waiting"} /\ lcl # "nil") ~> (addr[a].pc = "returned")

\* C26 witness: both callers have returned; a1 had been in cond.Wait, a2
\* came when the listener was published.
C26_Witness ==
    /\ addr["a1"].pc = "returned"
    /\ addr["a1"].waited
    /\ addr["a2"].pc = "returned"
    /\ ~addr["a2"].waited
    /\ addr["a2"].ret = l

\* ========================================================================
\* Addr beside a Start that fails (checked under SpecSvc)
\* ========================================================================
\* Start has failed, or is failing, before publishing the listener.
StartFailed == startRet \in {"worker", "bind"}

\* C28: once Start has failed to start a worker or to bind, the listener
\* stays absent, and no Addr call, waiting already or made later, returns
\* anything, address or error: a call that has run waits on the condition
\* for good.
C28_AddrBlocksAfterFailedStart ==
    /\ [](StartFailed =>
            /\ l = "nil"
            /\ \A a \in AllCallers :
                  addr[a].pc # "returned" /\ addr[a].ret = "none")
    /\ [][StartFailed => (startRet' = startRet /\ l' = "nil")]_vars
    /\ [][\A a \in AllCallers :
            (StartFailed /\ addr[a].pc = "waiting") => addr'[a] = addr[a]]_vars

\* C28 witness: Start has returned the error of the bind; a1, which was
\* waiting, and a2 both wait for the listener.
C28_Witness ==
    /\ startPc = "returned"
    /\ startRet = "bind"
    /\ addr["a1"].pc = "waiting"
    /\ addr["a2"].pc = "waiting"
    /\ l = "nil"

\* ========================================================================
\* One Start and one Stop, in any interleaving (checked under SpecSvc)
\* ========================================================================
\* C27 as stated: once Start and Stop have both returned, however their
\* steps interleaved, no route's worker is running.
C27_NoWorkerRunsAfterStartAndStop ==
    (startPc = "returned" /\ stopPc = "returned") =>
       \A r \in Routes : wrkr[r] # "running"


\* How far along the stream a position is: 0 for no position, else its place
\* among the consumer's checkpoints.
PositionRank(seq) ==
    IF seq = "" THEN 0
    ELSE CHOOSE i \in 1 .. Len(ConsumerCheckpoints) : ConsumerCheckpoints[i] = seq

\* The store's record of the shard is at or after the committed position.
StoreKeeps(sh) ==
    /\ sh \in DOMAIN items
    /\ PositionRank(items[sh].sequenceNumber) >= PositionRank(calls.committed[sh])

\* The shard status is at or after the committed position.
StatusKeeps(sh) ==
    PositionRank(shardStatus[sh].Checkpoint) >= PositionRank(calls.committed[sh])

\* C29: when CheckpointSequence runs concurrently with FetchCheckpoint or
\* ClaimShard on the same shard, a position committed by CheckpointSequence is
\* never afterwards replaced, in the store or in the shard status, by the
\* older position the concurrent fetch or claim had read.
C29_CommittedPositionKept ==
    \A sh \in AllShards :
       calls.committed[sh] # "none" => StoreKeeps(sh) /\ StatusKeeps(sh)

====
